---- MODULE Spec2Model ----
(***************************************************************************)
(* Model of the job-posting fraud detector backend                         *)
(* (linkedin-job-detector-extension-fastapi/backend/app).                  *)
(*                                                                         *)
(* Conventions                                                             *)
(*   - A Python str is a TLA+ string; substring search, lower(), strip()   *)
(*     and split() are computed character by character.                    *)
(*   - Optional[str] is <<>> for None and <<s>> for the string s.          *)
(*   - A Python float is an exact rational <<n, d>> in lowest terms with   *)
(*     d > 0.  The confidence field of a RiskFactor or AnalysisResult is   *)
(*     stored as an integer number of hundredths (0..100).  Rounding       *)
(*     errors of binary floating point are not modelled.                   *)
(*   - A dict is a function; its iteration order is given separately.      *)
(***************************************************************************)
EXTENDS Integers, Sequences, FiniteSets, TLC

(***************************************************************************)
(* Strings                                                                 *)
(***************************************************************************)
\* str[i - 1:i]: one character, or the empty string outside the string
Char(str, i) == IF i \in 1..Len(str) THEN SubSeq(str, i, i) ELSE ""

UpperChars == "ABCDEFGHIJKLMNOPQRSTUVWXYZ"

LowerChars == "abcdefghijklmnopqrstuvwxyz"

\* str.lower() on one character
LowerTable ==
    [c \in {Char(UpperChars, k) : k \in 1..Len(UpperChars)} |->
        Char(LowerChars, CHOOSE k \in 1..Len(UpperChars) : Char(UpperChars, k) = c)]

LowerChar(c) == IF c \in DOMAIN LowerTable THEN LowerTable[c] ELSE c

RECURSIVE Lower(_)
\* str.lower()
Lower(str) ==
    IF Len(str) = 0 THEN ""
    ELSE IF Len(str) = 1 THEN LowerChar(str)
    ELSE LET h == Len(str) \div 2
         IN  Lower(SubSeq(str, 1, h)) \o Lower(SubSeq(str, h + 1, Len(str)))

\* `sub in str`
Contains(str, sub) ==
    \E i \in 1..(Len(str) - Len(sub) + 1) : SubSeq(str, i, i + Len(sub) - 1) = sub

IsSpace(c) == c = " "

\* str.strip()
Strip(str) ==
    LET solid == {i \in 1..Len(str) : ~IsSpace(Char(str, i))}
    IN  IF solid = {} THEN ""
        ELSE SubSeq(str, CHOOSE i \in solid : \A j \in solid : i <= j,
                         CHOOSE i \in solid : \A j \in solid : i >= j)

\* len(str.split()): the number of maximal runs of non-whitespace characters
WordCount(str) ==
    Cardinality({i \in 1..Len(str) :
        /\ ~IsSpace(Char(str, i))
        /\ (i = 1 \/ IsSpace(Char(str, i - 1)))})

RECURSIVE Repeat(_, _)
\* str * n
Repeat(str, n) ==
    IF n <= 0 THEN ""
    ELSE IF n = 1 THEN str
    ELSE LET h == Repeat(str, n \div 2)
         IN  h \o h \o (IF n % 2 = 1 THEN str ELSE "")

(***************************************************************************)
(* Optional values                                                         *)
(***************************************************************************)
None == <<>>

Some(v) == <<v>>

\* `bool(v and v.strip())` for an Optional[str]
NonBlank(opt) == opt # None /\ Len(opt[1]) > 0 /\ Len(Strip(opt[1])) > 0

(***************************************************************************)
(* Exact rational arithmetic standing for Python float arithmetic          *)
(***************************************************************************)
Abs(n) == IF n < 0 THEN -n ELSE n

RECURSIVE GCD(_, _)
GCD(a, b) == IF b = 0 THEN a ELSE GCD(b, a % b)

Rat(n, d) ==
    LET g == GCD(Abs(n), Abs(d))
        s == IF d < 0 THEN -1 ELSE 1
    IN  <<(s * n) \div g, (s * d) \div g>>

RInt(n) == <<n, 1>>

RAdd(a, b) == Rat(a[1] * b[2] + b[1] * a[2], a[2] * b[2])

RSub(a, b) == Rat(a[1] * b[2] - b[1] * a[2], a[2] * b[2])

RMul(a, b) == Rat(a[1] * b[1], a[2] * b[2])

RDiv(a, b) == Rat(a[1] * b[2], a[2] * b[1])

\* an exception raised instead of a value: the 1-tuple of its name (a float
\* is a 2-tuple)
Raised(name) == <<name>>

IsRaised(v) == Len(v) = 1

\* the outcome of a call that an exception leaves, where the outcome of a
\* call that returns is a record without this field
Failure(raised) == [exception |-> raised]

Failed(outcome) == "exception" \in DOMAIN outcome

ZeroDivisionError == Raised("ZeroDivisionError")

\* a / b, which raises when b is 0
Divide(a, b) == IF b[1] = 0 THEN ZeroDivisionError ELSE RDiv(a, b)

RLe(a, b) == a[1] * b[2] <= b[1] * a[2]

RLt(a, b) == a[1] * b[2] < b[1] * a[2]

IsNotNegative(x) == RLe(RInt(0), x)

\* x > 0, the guard of a division by x
IsPositive(x) == RLt(RInt(0), x)

RMax(a, b) == IF RLt(a, b) THEN b ELSE a

RMin(a, b) == IF RLt(b, a) THEN b ELSE a

\* int(round(x)) for x >= 0: Python rounds halves to the even neighbour
RoundHalfEven(x) ==
    LET q == x[1] \div x[2]
        r == x[1] - q * x[2]
    IN  IF 2 * r < x[2] THEN q
        ELSE IF 2 * r > x[2] THEN q + 1
        ELSE IF q % 2 = 0 THEN q ELSE q + 1

\* a confidence stored in hundredths, as a float
Conf(c) == Rat(c, 100)

(***************************************************************************)
(* Data model (app/models)                                                 *)
(***************************************************************************)
TEXT_ANALYSIS == "text_analysis"

EMAIL_VALIDATION == "email_validation"

URL_VALIDATION == "url_validation"

PLATFORM_CREDIBILITY == "platform_credibility"

GENERAL == "general"

\* the enum in definition order, which is the order `for category in RiskCategory` visits
RiskCategory ==
    <<TEXT_ANALYSIS, EMAIL_VALIDATION, URL_VALIDATION, PLATFORM_CREDIBILITY, GENERAL>>

RiskCategories == {RiskCategory[i] : i \in DOMAIN RiskCategory}

RiskFactor(category, severity, description, confidence) ==
    [category |-> category, severity |-> severity,
     description |-> Strip(description), confidence |-> confidence]

\* the field constraints of RiskFactor
ValidRiskFactor(f) ==
    /\ f.category \in RiskCategories
    /\ f.severity \in 0..100
    /\ Len(f.description) \in 1..500
    /\ f.confidence \in 0..100

AnalysisResult(risk_factors, confidence, analyzer_name) ==
    [risk_factors |-> risk_factors, confidence |-> confidence,
     analyzer_name |-> analyzer_name]

SAFE == "Safe"

CAUTION == "Caution"

HIGH_RISK == "High Risk"

VerdictEnum == {SAFE, CAUTION, HIGH_RISK}

ConfidenceEnum == {"High", "Medium", "Low"}

\* the validators of JobAnalysisRequest on a request they accept: job_text and
\* platform_source are stripped, a blank company_url or recruiter_email becomes
\* None, the others are stripped and the email lower-cased
JobAnalysisRequest(job_text, company_url, recruiter_email, platform_source) ==
    [job_text |-> Strip(job_text),
     company_url |-> IF NonBlank(company_url) THEN Some(Strip(company_url[1])) ELSE None,
     recruiter_email |->
        IF NonBlank(recruiter_email) THEN Some(Lower(Strip(recruiter_email[1]))) ELSE None,
     platform_source |-> Strip(platform_source)]

\* the requests the field constraints and validators accept (the patterns of
\* the URL and of the email are not modelled)
ValidRequest(job_text, company_url, recruiter_email, platform_source) ==
    /\ Len(job_text) \in 10..10000 /\ Len(Strip(job_text)) > 0
    /\ company_url # None => Len(company_url[1]) <= 500
    /\ recruiter_email # None => Len(recruiter_email[1]) <= 254
    /\ Len(platform_source) \in 1..100 /\ Len(Strip(platform_source)) > 0

\* validate_flags: blank flags are dropped, the others stripped
ValidateFlags(v) ==
    LET kept == SelectSeq(v, LAMBDA flag : Len(Strip(flag)) > 0)
    IN  [i \in 1..Len(kept) |-> Strip(kept[i])]

JobAnalysisResponse(risk_score, flags, explanation, verdict, confidence) ==
    [risk_score |-> risk_score, flags |-> ValidateFlags(flags),
     explanation |-> Strip(explanation), verdict |-> verdict,
     confidence |-> confidence]

(***************************************************************************)
(* JobAnalysisService (app/services/job_analysis_service.py)               *)
(***************************************************************************)
\* self.category_weights as set by __init__, and the order of its items()
InitialCategoryWeights ==
    [c \in {TEXT_ANALYSIS, EMAIL_VALIDATION, URL_VALIDATION, PLATFORM_CREDIBILITY} |->
        CASE c = TEXT_ANALYSIS -> Rat(70, 100)
          [] c = EMAIL_VALIDATION -> Rat(12, 100)
          [] c = URL_VALIDATION -> Rat(10, 100)
          [] c = PLATFORM_CREDIBILITY -> Rat(8, 100)]

WeightOrder ==
    <<TEXT_ANALYSIS, EMAIL_VALIDATION, URL_VALIDATION, PLATFORM_CREDIBILITY>>

\* self.verdict_thresholds as set by __init__
InitialVerdictThresholds == [safe |-> 30, caution |-> 65, high_risk |-> 100]

\* the keys of the dict _run_all_analyzers builds, in insertion order
AnalyzerKeys == <<"text", "email", "url", "platform">>

RECURSIVE PoolFrom(_, _)
PoolFrom(analysis_results, i) ==
    IF i > Len(AnalyzerKeys) THEN <<>>
    ELSE (IF AnalyzerKeys[i] \in DOMAIN analysis_results
          THEN analysis_results[AnalyzerKeys[i]].risk_factors
          ELSE <<>>) \o PoolFrom(analysis_results, i + 1)

\* all_risk_factors: every result's risk factors, in the order of values()
AllRiskFactors(analysis_results) == PoolFrom(analysis_results, 1)

\* the sort key  f.severity * f.confidence, in hundredths
WeightedSeverity(f) == f.severity * f.confidence

SortedTiesReversed(factors) ==
    LET n == Len(factors)
        rank(i) == 1 + Cardinality({j \in 1..n :
                        \/ WeightedSeverity(factors[j]) > WeightedSeverity(factors[i])
                        \/ /\ WeightedSeverity(factors[j]) = WeightedSeverity(factors[i])
                           /\ j > i})
    IN  [k \in 1..n |-> factors[CHOOSE i \in 1..n : rank(i) = k]]

\* sorted(factors, key=severity * confidence, reverse=True): stable, so equal
\* keys keep their original order
SortedByWeightedSeverity(factors) ==
    LET n == Len(factors)
        rank(i) == 1 + Cardinality({j \in 1..n :
                        \/ WeightedSeverity(factors[j]) > WeightedSeverity(factors[i])
                        \/ /\ WeightedSeverity(factors[j]) = WeightedSeverity(factors[i])
                           /\ j < i})
    IN  [k \in 1..n |-> factors[CHOOSE i \in 1..n : rank(i) = k]]

RECURSIVE SumWeightedSeverity(_)
SumWeightedSeverity(factors) ==
    IF factors = <<>> THEN 0
    ELSE WeightedSeverity(Head(factors)) + SumWeightedSeverity(Tail(factors))

RECURSIVE SumConfidence(_)
SumConfidence(factors) ==
    IF factors = <<>> THEN 0
    ELSE Head(factors).confidence + SumConfidence(Tail(factors))

MaxOf(S) == CHOOSE m \in S : \A x \in S : x <= m

\* the top-3 rule taken from five text findings on
CategoryScoreFromFive(category, all_risk_factors) ==
    LET category_factors == SelectSeq(all_risk_factors, LAMBDA f : f.category = category)
        n == Len(category_factors)
        top_factors == SubSeq(SortedByWeightedSeverity(category_factors), 1, 3)
        total_weighted_severity == Rat(SumWeightedSeverity(category_factors), 100)
        total_confidence == Rat(SumConfidence(category_factors), 100)
    IN  IF n > 0
        THEN IF category = TEXT_ANALYSIS /\ n >= 5
             THEN [score |-> Rat(MaxOf({WeightedSeverity(top_factors[i]) : i \in 1..3}), 100),
                   confidence |-> Conf(MaxOf({top_factors[i].confidence : i \in 1..3}))]
             ELSE IF IsPositive(total_confidence)
                  THEN [score |-> Divide(total_weighted_severity, total_confidence),
                        confidence |-> RMin(RInt(1), RDiv(total_confidence, RInt(n)))]
                  ELSE [score |-> RInt(0), confidence |-> RInt(0)]
        ELSE [score |-> RInt(0), confidence |-> RInt(0)]

\* one pass of the loop over RiskCategory: the pair
\* (category_scores[category], category_confidences[category])
CategoryScore(category, all_risk_factors) ==
    LET category_factors == SelectSeq(all_risk_factors, LAMBDA f : f.category = category)
        n == Len(category_factors)
        top_factors == SubSeq(SortedByWeightedSeverity(category_factors), 1, 3)
        total_weighted_severity == Rat(SumWeightedSeverity(category_factors), 100)
        total_confidence == Rat(SumConfidence(category_factors), 100)
    IN  IF n > 0
        THEN IF category = TEXT_ANALYSIS /\ n > 5
             THEN [score |-> Rat(MaxOf({WeightedSeverity(top_factors[i]) : i \in 1..3}), 100),
                   confidence |-> Conf(MaxOf({top_factors[i].confidence : i \in 1..3}))]
             ELSE IF IsPositive(total_confidence)
                  THEN [score |-> Divide(total_weighted_severity, total_confidence),
                        confidence |-> RMin(RInt(1), RDiv(total_confidence, RInt(n)))]
                  ELSE [score |-> RInt(0), confidence |-> RInt(0)]
        ELSE [score |-> RInt(0), confidence |-> RInt(0)]

RECURSIVE WeightedScoreFrom(_, _, _, _)
\* weighted_score after the loop over category_weights.items()
WeightedScoreFrom(weights, scores, confidences, i) ==
    IF i > Len(WeightOrder) THEN RInt(0)
    ELSE LET category == WeightOrder[i]
             adjusted_weight == RMul(weights[category], confidences[category])
         IN  RAdd(RMul(scores[category], adjusted_weight),
                  WeightedScoreFrom(weights, scores, confidences, i + 1))

RECURSIVE TotalWeightFrom(_, _, _)
\* total_weight after the loop over category_weights.items()
TotalWeightFrom(weights, confidences, i) ==
    IF i > Len(WeightOrder) THEN RInt(0)
    ELSE RAdd(RMul(weights[WeightOrder[i]], confidences[WeightOrder[i]]),
              TotalWeightFrom(weights, confidences, i + 1))

\* the blend normalised by the plain weights, not the confidence-adjusted ones
BaseScoreByPlainWeights(weights, scores, confidences) ==
    LET weighted_score == WeightedScoreFrom(weights, scores, confidences, 1)
        ones == [c \in DOMAIN confidences |-> RInt(1)]
    IN  RDiv(weighted_score, TotalWeightFrom(weights, ones, 1))

\* base_score before the professional bonus
BaseScore(weights, scores, confidences) ==
    LET weighted_score == WeightedScoreFrom(weights, scores, confidences, 1)
        total_weight == TotalWeightFrom(weights, confidences, 1)
    IN  IF IsPositive(total_weight)
        THEN Divide(weighted_score, total_weight)
        ELSE RInt(0)

\* the lists of _calculate_professional_bonus
structure_indicators ==
    <<"responsibilities:", "requirements:", "qualifications:",
      "about the role:", "job description:", "duties include:",
      "we are looking for:", "the ideal candidate:", "about us:",
      "what you'll do:", "what we offer:", "benefits:", "perks:",
      "key responsibilities:", "required skills:", "preferred qualifications:">>

professional_terms ==
    <<"bachelor's degree", "master's degree", "years of experience",
      "proven track record", "strong communication skills", "team player",
      "competitive salary", "benefits package", "equal opportunity employer",
      "professional development", "career growth", "health insurance",
      "401k", "pto", "paid time off", "work-life balance", "remote work",
      "hybrid work", "flexible schedule", "mentorship", "training">>

technical_skills ==
    <<"python", "java", "javascript", "sql", "aws", "docker", "kubernetes",
      "react", "angular", "node.js", "git", "agile", "scrum", "devops",
      "machine learning", "data analysis", "project management", "html",
      "css", "typescript", "mongodb", "postgresql", "redis", "api",
      "microservices", "ci/cd", "jenkins", "terraform", "ansible">>

\* sum(1 for item in items if item in text)
CountContained(items, text) ==
    Cardinality({i \in DOMAIN items : Contains(text, items[i])})

StructureBonus(structure_count) ==
    IF structure_count >= 3 THEN 10
    ELSE IF structure_count >= 2 THEN 7
    ELSE IF structure_count >= 1 THEN 4
    ELSE 0

ProfessionalTermsBonusFromTwo(professional_count) ==
    IF professional_count >= 5 THEN 8
    ELSE IF professional_count >= 2 THEN 5
    ELSE IF professional_count >= 1 THEN 2
    ELSE 0

ProfessionalTermsBonus(professional_count) ==
    IF professional_count >= 5 THEN 8
    ELSE IF professional_count >= 3 THEN 5
    ELSE IF professional_count >= 1 THEN 2
    ELSE 0

TechnicalSkillsBonus(technical_count) ==
    IF technical_count >= 4 THEN 7
    ELSE IF technical_count >= 2 THEN 4
    ELSE IF technical_count >= 1 THEN 2
    ELSE 0

LengthBonus(word_count) ==
    IF word_count >= 200 THEN 5
    ELSE IF word_count >= 100 THEN 3
    ELSE IF word_count >= 50 THEN 1
    ELSE 0

Min(a, b) == IF a <= b THEN a ELSE b

Max(a, b) == IF a >= b THEN a ELSE b

\* _calculate_professional_bonus
CalculateProfessionalBonus(job_text) ==
    IF Len(job_text) = 0 THEN 0
    ELSE LET text_lower == Lower(job_text)
             bonus == StructureBonus(CountContained(structure_indicators, text_lower))
                      + ProfessionalTermsBonus(CountContained(professional_terms, text_lower))
                      + TechnicalSkillsBonus(CountContained(technical_skills, text_lower))
                      + LengthBonus(WordCount(job_text))
         IN  Min(25, bonus)

\* analysis_results.get(key, default).risk_factors
RiskFactorsOf(analysis_results, key) ==
    IF key \in DOMAIN analysis_results THEN analysis_results[key].risk_factors ELSE <<>>

AnySeverityAtLeast(factors, bound) ==
    \E i \in DOMAIN factors : factors[i].severity >= bound

MeetsMediumOverFiftyWords(text_confidence, job_text) ==
    RLe(Rat(7, 10), text_confidence) /\ WordCount(job_text) > 50

\* text_confidence >= 0.7 and len(request.job_text.split()) >= 50
MeetsMedium(text_confidence, job_text) ==
    RLe(Rat(7, 10), text_confidence) /\ WordCount(job_text) >= 50

\* _calculate_confidence_level
CalculateConfidenceLevel(analysis_results, request) ==
    LET has_email == NonBlank(request.recruiter_email)
        has_url == NonBlank(request.company_url)
        has_platform == Len(request.platform_source) > 0
                        /\ Len(Strip(request.platform_source)) > 0
        metadata_completeness ==
            Rat(Cardinality({k \in {"email", "url", "platform"} :
                    \/ k = "email" /\ has_email
                    \/ k = "url" /\ has_url
                    \/ k = "platform" /\ has_platform}), 3)
        text_confidence ==
            IF "text" \in DOMAIN analysis_results
            THEN Conf(analysis_results["text"].confidence) ELSE Conf(50)
        text_factors == RiskFactorsOf(analysis_results, "text")
        email_factors == RiskFactorsOf(analysis_results, "email")
        url_factors == RiskFactorsOf(analysis_results, "url")
        high_risk_text == AnySeverityAtLeast(text_factors, 70)
        high_risk_metadata == AnySeverityAtLeast(email_factors \o url_factors, 70)
    IN  IF /\ RLe(Rat(67, 100), metadata_completeness)
           /\ RLe(Rat(8, 10), text_confidence)
           /\ ~(high_risk_text /\ ~high_risk_metadata)
           /\ ~(high_risk_metadata /\ ~high_risk_text)
        THEN "High"
        ELSE IF MeetsMedium(text_confidence, request.job_text)
             THEN "Medium"
             ELSE "Low"

FactorMultiplierCaseSensitive(factor) ==
    LET description == factor.description
    IN  IF Contains(description, "high fraud") THEN Rat(14, 10)
        ELSE IF Contains(description, "messaging apps") THEN Rat(13, 10)
        ELSE IF Contains(description, "social media") THEN Rat(12, 10)
        ELSE IF Contains(description, "lower credibility") THEN Rat(11, 10)
        ELSE RInt(1)

\* the multiplier one platform risk factor asks for (the if/elif chain)
FactorMultiplier(factor) ==
    LET description == Lower(factor.description)
    IN  IF Contains(description, "high fraud") THEN Rat(14, 10)
        ELSE IF Contains(description, "messaging apps") THEN Rat(13, 10)
        ELSE IF Contains(description, "social media") THEN Rat(12, 10)
        ELSE IF Contains(description, "lower credibility") THEN Rat(11, 10)
        ELSE RInt(1)

RECURSIVE MultiplierOver(_, _)
\* multiplier after the loop over platform_result.risk_factors
MultiplierOver(factors, multiplier) ==
    IF factors = <<>> THEN multiplier
    ELSE MultiplierOver(Tail(factors), RMax(multiplier, FactorMultiplier(Head(factors))))

\* no adjustment for the platform: the multiplier stays 1.0
NoPlatformRiskMultiplier(analysis_results) == RInt(1)

\* _get_platform_risk_multiplier(analysis_results.get('platform'))
GetPlatformRiskMultiplier(analysis_results) ==
    IF "platform" \notin DOMAIN analysis_results
       \/ analysis_results["platform"].risk_factors = <<>>
    THEN RInt(1)
    ELSE MultiplierOver(analysis_results["platform"].risk_factors, RInt(1))

\* the multiplier applied before the bonus
AdjustScoreMultiplierFirst(base_score, has_text, professional_bonus, platform_multiplier) ==
    LET scaled == RMul(base_score, platform_multiplier)
        offset_score ==
            IF has_text THEN RMax(RInt(0), RSub(scaled, RInt(professional_bonus)))
            ELSE scaled
    IN  [offset_score |-> offset_score, adjusted_score |-> offset_score]

\* lines 170-178: the professional bonus is subtracted when a text result
\* exists, then the platform multiplier is applied
AdjustScore(base_score, has_text, professional_bonus, platform_multiplier) ==
    LET offset_score ==
            IF has_text THEN RMax(RInt(0), RSub(base_score, RInt(professional_bonus)))
            ELSE base_score
    IN  [offset_score |-> offset_score,
         adjusted_score |-> RMul(offset_score, platform_multiplier)]

\* the rounded score without the clamp
FinalScoreUnclamped(adjusted_score) == RoundHalfEven(adjusted_score)

\* line 184: max(0, min(100, int(round(adjusted_score))))
FinalScore(adjusted_score) == Max(0, Min(100, RoundHalfEven(adjusted_score)))

\* _calculate_overall_risk_score_with_confidence, with its local variables
CalculateOverallRiskScoreWithConfidence(weights, analysis_results, request) ==
    LET all_risk_factors == AllRiskFactors(analysis_results)
        category_result == [c \in RiskCategories |-> CategoryScore(c, all_risk_factors)]
        category_scores == [c \in RiskCategories |-> category_result[c].score]
        category_confidences == [c \in RiskCategories |-> category_result[c].confidence]
        category_raised == \E c \in RiskCategories : IsRaised(category_scores[c])
        base_score == BaseScore(weights, category_scores, category_confidences)
        has_text == "text" \in DOMAIN analysis_results
        professional_bonus ==
            IF has_text THEN CalculateProfessionalBonus(request.job_text) ELSE 0
        platform_multiplier == GetPlatformRiskMultiplier(analysis_results)
        adjusted == AdjustScore(base_score, has_text, professional_bonus, platform_multiplier)
    IN  IF category_raised \/ IsRaised(base_score)
        THEN Failure(ZeroDivisionError)
        ELSE
        [category_scores |-> category_scores,
         category_confidences |-> category_confidences,
         base_score |-> base_score,
         professional_bonus |-> professional_bonus,
         offset_score |-> adjusted.offset_score,
         platform_multiplier |-> platform_multiplier,
         adjusted_score |-> adjusted.adjusted_score,
         confidence_level |-> CalculateConfidenceLevel(analysis_results, request),
         final_score |-> FinalScore(adjusted.adjusted_score)]

\* the thresholds taken as exclusive upper bounds
DetermineVerdictExclusive(thresholds, risk_score) ==
    IF risk_score < thresholds.safe THEN SAFE
    ELSE IF risk_score < thresholds.caution THEN CAUTION
    ELSE HIGH_RISK

\* _determine_verdict
DetermineVerdict(thresholds, risk_score) ==
    IF risk_score <= thresholds.safe THEN SAFE
    ELSE IF risk_score <= thresholds.caution THEN CAUTION
    ELSE HIGH_RISK

RECURSIVE FlagsFrom(_, _)
\* the loop of _generate_flags over the sorted factors; `flags` is the list so
\* far (seen_descriptions is the set of its elements)
FlagsFrom(factors, flags) ==
    IF factors = <<>> THEN flags
    ELSE IF \A i \in DOMAIN flags : flags[i] # Head(factors).description
         THEN IF Len(flags) + 1 >= 8
              THEN Append(flags, Head(factors).description)
              ELSE FlagsFrom(Tail(factors), Append(flags, Head(factors).description))
         ELSE FlagsFrom(Tail(factors), flags)

\* _generate_flags
GenerateFlags(analysis_results) ==
    FlagsFrom(SortedByWeightedSeverity(AllRiskFactors(analysis_results)), <<>>)

RECURSIVE Join(_, _)
\* sep.join(parts)
Join(parts, sep) ==
    IF parts = <<>> THEN ""
    ELSE IF Len(parts) = 1 THEN parts[1]
    ELSE parts[1] \o sep \o Join(Tail(parts), sep)

\* the opening statement of _generate_explanation
OpeningStatement(risk_score, verdict, confidence_level) ==
    IF verdict = SAFE
    THEN "This job posting appears legitimate with a low risk score of "
         \o ToString(risk_score) \o " (" \o Lower(confidence_level) \o " confidence)."
    ELSE IF verdict = CAUTION
    THEN "This job posting shows some concerning signs with a moderate risk score of "
         \o ToString(risk_score) \o " (" \o Lower(confidence_level) \o " confidence)."
    ELSE "This job posting has significant red flags with a high risk score of "
         \o ToString(risk_score) \o " (" \o Lower(confidence_level) \o " confidence)."

\* the sentence on the top three risk factors, as a list of zero or one parts
TopFactorsStatement(sorted_factors) ==
    IF sorted_factors = <<>> THEN <<>>
    ELSE LET top_factors == SubSeq(sorted_factors, 1, Min(3, Len(sorted_factors)))
             concerns == [i \in 1..Len(top_factors) |-> Lower(top_factors[i].description)]
         IN  IF Len(top_factors) = 1
             THEN <<"The main concern is: " \o concerns[1] \o ".">>
             ELSE IF Len(concerns) = 2
             THEN <<"Key concerns include: " \o concerns[1] \o " and " \o concerns[2] \o ".">>
             ELSE <<"Key concerns include: "
                    \o Join(SubSeq(concerns, 1, Len(concerns) - 1), ", ")
                    \o ", and " \o concerns[Len(concerns)] \o ".">>

\* _get_category_insights
GetCategoryInsights(analysis_results) ==
    LET insight(key, text) ==
            IF AnySeverityAtLeast(RiskFactorsOf(analysis_results, key), 60)
            THEN <<text>> ELSE <<>>
        insights ==
            insight("text", "the job description contains suspicious elements")
            \o insight("email", "the recruiter email raises credibility concerns")
            \o insight("url", "the company URL appears questionable")
            \o insight("platform", "the platform source has credibility issues")
    IN  IF insights = <<>> THEN ""
        ELSE IF Len(insights) = 1 THEN "Specifically, " \o insights[1] \o "."
        ELSE IF Len(insights) = 2
        THEN "Specifically, " \o insights[1] \o " and " \o insights[2] \o "."
        ELSE "Specifically, " \o Join(SubSeq(insights, 1, Len(insights) - 1), ", ")
             \o ", and " \o insights[Len(insights)] \o "."

\* one closing sentence whatever the verdict
RecommendationOfCaution(verdict) ==
    "Exercise caution and verify company details before proceeding with any application."

\* the recommendation that closes _generate_explanation
Recommendation(verdict) ==
    IF verdict = SAFE
    THEN "The job posting meets standard legitimacy criteria, but always verify details independently."
    ELSE IF verdict = CAUTION
    THEN "Exercise caution and verify company details before proceeding with any application."
    ELSE "Strong recommendation to avoid this opportunity and report if encountered on job platforms."

\* _generate_explanation
GenerateExplanation(analysis_results, risk_score, verdict, confidence_level) ==
    LET sorted_factors == SortedByWeightedSeverity(AllRiskFactors(analysis_results))
        category_insights == GetCategoryInsights(analysis_results)
        explanation_parts ==
            <<OpeningStatement(risk_score, verdict, confidence_level)>>
            \o TopFactorsStatement(sorted_factors)
            \o (IF category_insights # "" THEN <<category_insights>> ELSE <<>>)
            \o <<Recommendation(verdict)>>
    IN  Join(explanation_parts, " ")

(***************************************************************************)
(* State                                                                   *)
(***************************************************************************)
VARIABLES
    category_weights,    \* JobAnalysisService.category_weights
    verdict_thresholds,  \* JobAnalysisService.verdict_thresholds
    pc,                  \* "request": a request is being handled; "response": it is answered
    request,             \* the JobAnalysisRequest passed to analyze_job_posting
    analysis_results,    \* the dict returned by _run_all_analyzers
    scoring,             \* the local variables of _calculate_overall_risk_score_with_confidence
    response,            \* the JobAnalysisResponse returned
    exception,           \* the exception analyze_job_posting raised instead, if any
    call,                \* a direct call of one method: its name and arguments
    returned,            \* the value that call returned
    served,              \* the requests handled so far on this instance, with their outcomes
    clock,               \* what time.time() returns, in whole seconds
    limiter,             \* the RateLimitingMiddleware instance of the app
    collector,           \* metrics_collector.metrics
    http,                \* the HTTP exchanges at the boundary: in flight and answered
    forwarded            \* what the middlewares passed to call_next, in order

\* the state of the HTTP boundary (app/main.py, app/middleware)
boundary == <<clock, limiter, collector, http, forwarded>>

vars == <<category_weights, verdict_thresholds, pc, request, analysis_results,
          scoring, response, exception, call, returned, served,
          clock, limiter, collector, http, forwarded>>

\* the service used without the application around it
NoBoundary ==
    /\ clock = 0
    /\ limiter = <<>>
    /\ collector = <<>>
    /\ http = <<>>
    /\ forwarded = <<>>

\* the service after __init__, about to handle one request whose analyzer
\* results are one of `inputs`
InitWith(inputs) ==
    /\ category_weights = InitialCategoryWeights
    /\ verdict_thresholds = InitialVerdictThresholds
    /\ pc = "request"
    /\ \E input \in inputs :
        /\ request = input.request
        /\ analysis_results = input.analysis_results
    /\ scoring = <<>>
    /\ response = <<>>
    /\ exception = None
    /\ call = <<>>
    /\ returned = <<>>
    /\ served = <<>>
    /\ NoBoundary

\* lines 58-67: the response built from the score, the confidence level and
\* the verdict
ResponseWith(calc, verdict, results) ==
    [scoring |-> calc,
     response |-> JobAnalysisResponse(
                      calc.final_score,
                      GenerateFlags(results),
                      GenerateExplanation(results, calc.final_score, verdict,
                                          calc.confidence_level),
                      verdict,
                      calc.confidence_level)]

\* lines 55-67 after the scoring returned calc or raised
AfterScoring(calc, thresholds, results) ==
    IF Failed(calc) THEN calc
    ELSE ResponseWith(calc, DetermineVerdict(thresholds, calc.final_score), results)

\* analyze_job_posting once _run_all_analyzers has returned `results`: the
\* locals of the scoring with the response, or the exception the scoring
\* raised
OutcomeWith(weights, thresholds, results, req) ==
    AfterScoring(CalculateOverallRiskScoreWithConfidence(weights, results, req),
                 thresholds, results)

\* the call returns the response of the outcome, or raises its exception
ReturnScored(outcome) ==
    IF Failed(outcome)
    THEN /\ scoring' = outcome
         /\ response' = <<>>
         /\ exception' = outcome.exception
         /\ pc' = "raised"
    ELSE /\ scoring' = outcome.scoring
         /\ response' = outcome.response
         /\ exception' = None
         /\ pc' = "response"

\* the outcome stored in the state
AnalyzeWith(results) ==
    ReturnScored(OutcomeWith(category_weights, verdict_thresholds, results, request))

\* analyze_job_posting, from the analyzer results to the response
AnalyzeJobPosting ==
    /\ pc = "request"
    /\ AnalyzeWith(analysis_results)
    /\ UNCHANGED <<category_weights, verdict_thresholds, request, analysis_results,
                   call, returned, served,
                   clock, limiter, collector, http, forwarded>>

Next == AnalyzeJobPosting

\* the service after __init__, about to run one of `calls` on its own
InitCall(calls) ==
    /\ category_weights = InitialCategoryWeights
    /\ verdict_thresholds = InitialVerdictThresholds
    /\ pc = "call"
    /\ request = <<>>
    /\ analysis_results = <<>>
    /\ scoring = <<>>
    /\ response = <<>>
    /\ exception = None
    /\ call \in calls
    /\ returned = <<>>
    /\ served = <<>>
    /\ NoBoundary

\* self._calculate_professional_bonus(job_text)
CallCalculateProfessionalBonus ==
    /\ pc = "call"
    /\ call.method = "_calculate_professional_bonus"
    /\ returned' = CalculateProfessionalBonus(call.job_text)
    /\ pc' = "return"
    /\ UNCHANGED <<category_weights, verdict_thresholds, request, analysis_results,
                   scoring, response, exception, call, served,
                   clock, limiter, collector, http, forwarded>>

(***************************************************************************)
(* Inputs                                                                  *)
(***************************************************************************)
\* all lists over S of length at most n
SeqsUpTo(S, n) == UNION {[1..k -> S] : k \in 0..n}

\* the dict of _run_all_analyzers for the four lists of risk factors
ResultsOf(text_factors, text_confidence, email_factors, url_factors, platform_factors) ==
    [k \in {"text", "email", "url", "platform"} |->
        CASE k = "text" -> AnalysisResult(text_factors, text_confidence, "TextAnalyzer")
          [] k = "email" -> AnalysisResult(email_factors, 100, "EmailAnalyzer")
          [] k = "url" -> AnalysisResult(url_factors, 100, "URLAnalyzer")
          [] k = "platform" -> AnalysisResult(platform_factors, 100, "PlatformAnalyzer")]

\* a dict without the results of `keys`
Without(results, keys) == [k \in DOMAIN results \ keys |-> results[k]]

Input(req, results) == [request |-> req, analysis_results |-> results]

PlainText == "We are hiring a clerk."

PlainRequest(job_text) ==
    JobAnalysisRequest(job_text, Some("https://example.com"), Some("hr@example.com"), "LinkedIn")

\* job texts whose professional bonus is 0, 4, 13 and 25
OffsetTexts ==
    {PlainText,
     "Requirements: none.",
     "Requirements: python and sql. Benefits: training.",
     "Responsibilities: x. Requirements: y. Benefits: z. python java sql aws "
        \o "401k pto training mentorship career growth"}

\* the longest list of risk factors one analyzer returns in the scoring runs
MaxFindings == 6

TextPool ==
    {RiskFactor(TEXT_ANALYSIS, 100, "Asks for SSN", 90),
     RiskFactor(TEXT_ANALYSIS, 15, "Capital letters", 100),
     RiskFactor(TEXT_ANALYSIS, 40, "Phone number", 0)}

EmailPool ==
    {RiskFactor(EMAIL_VALIDATION, 80, "Disposable email", 50),
     RiskFactor(EMAIL_VALIDATION, 20, "Free email provider", 100)}

\* platform findings asking for each multiplier, and one asking for none
PlatformPool ==
    {RiskFactor(PLATFORM_CREDIBILITY, 80, "Platform is known for high fraud rates", 90),
     RiskFactor(PLATFORM_CREDIBILITY, 60, "Messaging apps are commonly used for scams", 80),
     RiskFactor(PLATFORM_CREDIBILITY, 52, "Social media platforms have higher fraud risk", 80),
     RiskFactor(PLATFORM_CREDIBILITY, 50, "Platform has lower credibility rating", 80),
     RiskFactor(PLATFORM_CREDIBILITY, 25, "Platform has moderate credibility rating", 60)}

MessagingFactor ==
    RiskFactor(PLATFORM_CREDIBILITY, 60, "Messaging apps are commonly used for scams", 80)

\* runs on the text category: every list of text findings up to MaxFindings
TextRuns ==
    {Input(PlainRequest(PlainText),
           ResultsOf(text_factors, 80, <<>>, <<>>, platform_factors)) :
        text_factors \in SeqsUpTo(TextPool, MaxFindings),
        platform_factors \in {<<>>, <<MessagingFactor>>}}

\* runs on another category: every list of email findings up to MaxFindings
EmailRuns ==
    {Input(PlainRequest(PlainText),
           ResultsOf(text_factors, 80, email_factors, <<>>, <<>>)) :
        text_factors \in SeqsUpTo(TextPool, 1),
        email_factors \in SeqsUpTo(EmailPool, MaxFindings)}

\* one text finding of every severity
SeverityRuns ==
    {Input(PlainRequest(PlainText),
           ResultsOf(<<RiskFactor(TEXT_ANALYSIS, severity, "Suspicious pattern", 100)>>,
                     80, <<>>, <<>>, <<>>)) :
        severity \in 0..100}

\* runs on the blend: a few findings in every category, some tagged General,
\* some results missing from the dict
BlendRuns ==
    {Input(PlainRequest(PlainText),
           Without(ResultsOf(text_factors, 80, email_factors, url_factors, platform_factors),
                   missing)) :
        text_factors \in
            {<<>>,
             <<RiskFactor(TEXT_ANALYSIS, 100, "Asks for SSN", 90)>>,
             <<RiskFactor(TEXT_ANALYSIS, 60, "Urgency keywords", 80),
               RiskFactor(GENERAL, 100, "General warning", 100)>>},
        email_factors \in
            {<<>>,
             <<RiskFactor(EMAIL_VALIDATION, 80, "Disposable email", 50)>>,
             <<RiskFactor(EMAIL_VALIDATION, 80, "Disposable email", 50),
               RiskFactor(EMAIL_VALIDATION, 20, "Free email provider", 100)>>},
        url_factors \in
            {<<>>,
             <<RiskFactor(URL_VALIDATION, 75, "URL uses an IP address", 90)>>,
             <<RiskFactor(URL_VALIDATION, 35, "URL has a deep path", 0)>>},
        platform_factors \in
            {<<>>,
             <<RiskFactor(PLATFORM_CREDIBILITY, 50, "Platform has lower credibility rating", 80)>>,
             <<RiskFactor(GENERAL, 90, "General platform warning", 100)>>},
        missing \in {{}, {"email"}, {"url"}, {"platform"}, {"email", "url", "platform"}}}

\* runs on the order of bonus, multiplier, rounding and clamping
OffsetRuns ==
    {Input(PlainRequest(job_text),
           ResultsOf(<<RiskFactor(TEXT_ANALYSIS, severity, "Suspicious pattern", 100)>>,
                     80, <<>>, <<>>, platform_factors)) :
        job_text \in OffsetTexts,
        severity \in {0, 5, 7, 13, 20, 26, 50, 77, 100},
        platform_factors \in {<<>>} \cup {<<f>> : f \in PlatformPool}}

ScoreInputs == TextRuns \cup EmailRuns \cup SeverityRuns \cup BlendRuns \cup OffsetRuns

InitScore == InitWith(ScoreInputs)

SpecScore == InitScore /\ [][Next]_vars

(***************************************************************************)
(* Properties of the score (SpecScore)                                     *)
(***************************************************************************)
Answered == pc = "response"

\* C1: the risk_score returned by analyze_job_posting is an integer with
\* 0 <= risk_score <= 100, whatever the findings, the bonus and the multiplier.
RiskScoreWithinBounds ==
    Answered => response.risk_score \in Int /\ response.risk_score \in 0..100

\* C1 witness: the platform multiplier has pushed the adjusted score above 100
MultiplierOverflowAnswered ==
    Answered /\ RLt(RInt(100), scoring.adjusted_score)
             /\ RLt(RInt(1), scoring.platform_multiplier)

\* the verdict the thresholds 30 and 65 ask for
VerdictOfScore(score) ==
    CASE score <= 30 -> "Safe"
      [] score >= 31 /\ score <= 65 -> "Caution"
      [] score >= 66 -> "High Risk"

\* C2: _determine_verdict maps every score in 0..100 to Safe iff score <= 30,
\* Caution iff 31 <= score <= 65, High Risk iff score >= 66, and the verdict of
\* every response is the one determined by that response's risk_score.
VerdictMatchesScore ==
    /\ \A score \in 0..100 :
          DetermineVerdict(verdict_thresholds, score) = VerdictOfScore(score)
    /\ Answered =>
          /\ response.verdict \in VerdictEnum
          /\ response.verdict = "Safe" <=> response.risk_score <= 30
          /\ response.verdict = "Caution" <=>
                (response.risk_score >= 31 /\ response.risk_score <= 65)
          /\ response.verdict = "High Risk" <=> response.risk_score >= 66

\* C2 witness: a response at the lower edge of Caution
CautionAtThirtyOne ==
    Answered /\ response.risk_score = 31 /\ response.verdict = "Caution"

\* the findings of the pool that carry `category`
TaggedFactors(category) ==
    SelectSeq(AllRiskFactors(analysis_results), LAMBDA f : f.category = category)

\* analysis_results without its General findings and without its empty results
WithoutGeneralAndEmpty ==
    LET kept(key) == SelectSeq(analysis_results[key].risk_factors,
                               LAMBDA f : f.category # GENERAL)
        keys == {key \in DOMAIN analysis_results : key = "text" \/ kept(key) # <<>>}
    IN  [key \in keys |->
            [analysis_results[key] EXCEPT !.risk_factors = kept(key)]]

\* C3: the base score is sum(score x weight x confidence) / sum(weight x
\* confidence) over Text 0.70, Email 0.12, Url 0.10, Platform 0.08, and 0 when
\* the denominator is 0; a category without findings has confidence 0, so an
\* empty result, present or not, and findings tagged General leave it unchanged.
BaseScoreIsConfidenceWeightedBlend ==
    Answered =>
        LET S == scoring.category_scores
            K == scoring.category_confidences
            term(c, w) == RMul(S[c], RMul(Rat(w, 100), K[c]))
            part(c, w) == RMul(Rat(w, 100), K[c])
            numerator ==
                RAdd(RAdd(term(TEXT_ANALYSIS, 70), term(EMAIL_VALIDATION, 12)),
                     RAdd(term(URL_VALIDATION, 10), term(PLATFORM_CREDIBILITY, 8)))
            denominator ==
                RAdd(RAdd(part(TEXT_ANALYSIS, 70), part(EMAIL_VALIDATION, 12)),
                     RAdd(part(URL_VALIDATION, 10), part(PLATFORM_CREDIBILITY, 8)))
        IN  /\ denominator = RInt(0) => scoring.base_score = RInt(0)
            /\ denominator # RInt(0) =>
                  RMul(scoring.base_score, denominator) = numerator
            /\ \A c \in RiskCategories :
                  TaggedFactors(c) = <<>> => K[c] = RInt(0) /\ S[c] = RInt(0)
            /\ CalculateOverallRiskScoreWithConfidence(
                   category_weights, WithoutGeneralAndEmpty, request).base_score
               = scoring.base_score

\* C3 witness: a blend of two categories, one result missing, a General
\* finding in the pool, and a base score that is not 0
BlendWithGeneralAndMissing ==
    /\ Answered
    /\ TaggedFactors(GENERAL) # <<>>
    /\ DOMAIN analysis_results # {"text", "email", "url", "platform"}
    /\ scoring.category_confidences[TEXT_ANALYSIS] # RInt(0)
    /\ scoring.category_confidences[EMAIL_VALIDATION] # RInt(0)
    /\ scoring.category_confidences[EMAIL_VALIDATION] # RInt(1)
    /\ scoring.base_score # RInt(0)

\* the sets of three findings none of which is outweighed by a finding left out
TopThreeSets(factors) ==
    {T \in SUBSET (1..Len(factors)) :
        /\ Cardinality(T) = 3
        /\ \A i \in T : \A j \in (1..Len(factors)) \ T :
              factors[i].severity * factors[i].confidence
                >= factors[j].severity * factors[j].confidence}

\* C4: TextAnalysis with more than 5 findings scores the maximum of severity x
\* confidence over the 3 findings with the highest severity x confidence, with
\* the maximum confidence among those 3; every other case scores
\* sum(severity*confidence)/sum(confidence) with confidence
\* min(1.0, sum(confidence)/count); no findings or sum(confidence) = 0 give 0, 0.
CategoryScoringRule ==
    Answered =>
        \A c \in RiskCategories :
            LET factors == TaggedFactors(c)
                n == Len(factors)
                score == scoring.category_scores[c]
                confidence == scoring.category_confidences[c]
                weighted == SumWeightedSeverity(factors)
                total == SumConfidence(factors)
            IN  IF n = 0 \/ total = 0
                THEN score = RInt(0) /\ confidence = RInt(0)
                ELSE IF c = TEXT_ANALYSIS /\ n > 5
                THEN \E T \in TopThreeSets(factors) :
                        /\ \E i \in T :
                              /\ score[1] * 100 = factors[i].severity * factors[i].confidence * score[2]
                              /\ \A j \in T :
                                    factors[j].severity * factors[j].confidence
                                      <= factors[i].severity * factors[i].confidence
                        /\ \E i \in T :
                              /\ confidence[1] * 100 = factors[i].confidence * confidence[2]
                              /\ \A j \in T : factors[j].confidence <= factors[i].confidence
                ELSE /\ score[1] * total = weighted * score[2]
                     /\ IF total >= 100 * n
                        THEN confidence = RInt(1)
                        ELSE confidence[1] * 100 * n = total * confidence[2]

\* C4 witness: six text findings scored by the top-3 rule, where a finding
\* outside the top three has the highest confidence of all
TopThreeOfSixTextFindings ==
    /\ Answered
    /\ Len(TaggedFactors(TEXT_ANALYSIS)) = 6
    /\ scoring.category_scores[TEXT_ANALYSIS] = RInt(90)
    /\ scoring.category_confidences[TEXT_ANALYSIS] = Rat(9, 10)
    /\ \E i \in 1..6 : TaggedFactors(TEXT_ANALYSIS)[i].confidence = 100

\* C5: the final score is clamp(round(max(0, base - bonus) x multiplier)), in
\* that order; a base score that does not exceed the bonus yields 0.
ScoreAdjustmentOrder ==
    Answered =>
        LET base == scoring.base_score
            bonus == CalculateProfessionalBonus(request.job_text)
            offset == IF RLe(base, RInt(bonus)) THEN RInt(0) ELSE RSub(base, RInt(bonus))
            adjusted == RMul(offset, scoring.platform_multiplier)
            final == response.risk_score
        IN  /\ scoring.professional_bonus = bonus
            /\ scoring.offset_score = offset
            /\ scoring.adjusted_score = adjusted
            /\ final \in 0..100
            /\ IF RLt(RInt(100), adjusted)
               THEN final = 100
               ELSE 2 * Abs(final * adjusted[2] - adjusted[1]) <= adjusted[2]
            /\ RLe(base, RInt(bonus)) => final = 0

\* C5 witness: a positive bonus below the base score and a multiplier above 1,
\* where subtracting the bonus after multiplying would give another score
OffsetThenMultiplied ==
    /\ Answered
    /\ scoring.professional_bonus > 0
    /\ RLt(RInt(scoring.professional_bonus), scoring.base_score)
    /\ RLt(RInt(1), scoring.platform_multiplier)
    /\ response.risk_score \in 1..99
    /\ response.risk_score #
          RoundHalfEven(RSub(RMul(scoring.base_score, scoring.platform_multiplier),
                             RInt(scoring.professional_bonus)))

(***************************************************************************)
(* Calls of _calculate_professional_bonus (SpecBonus)                      *)
(***************************************************************************)
\* the most entries of each list a job text of the family mentions
MaxStructureMatches == 4

MaxProfessionalMatches == 6

MaxTechnicalMatches == 5

\* a job text mentioning the first entries of each list
Mentioning(structure, professional, technical) ==
    Join(SubSeq(structure_indicators, 1, structure)
         \o SubSeq(professional_terms, 1, professional)
         \o SubSeq(technical_skills, 1, technical), " ")

\* the text followed by filler words up to `words` words
PaddedTo(text, words) == text \o Repeat(" ok", words - WordCount(text))

\* job texts around each step of the length bonus
LengthTexts ==
    {PaddedTo(Mentioning(m[1], m[2], m[3]), words) :
        m \in {<<0, 0, 0>>, <<1, 2, 1>>, <<2, 3, 2>>, <<3, 5, 2>>, <<3, 5, 4>>},
        words \in {49, 50, 99, 100, 199, 200}}

BonusTexts ==
    {Mentioning(structure, professional, technical) :
        structure \in 0..MaxStructureMatches,
        professional \in 0..MaxProfessionalMatches,
        technical \in 0..MaxTechnicalMatches}
    \cup LengthTexts
    \cup {"", "   ", "Key Responsibilities: filing", "We use JavaScript and PostgreSQL",
          "REQUIREMENTS: PYTHON, 401K", "Laptop provided"}

BonusCalls ==
    {[method |-> "_calculate_professional_bonus", job_text |-> job_text] :
        job_text \in BonusTexts}

InitBonus == InitCall(BonusCalls)

NextBonus == CallCalculateProfessionalBonus

SpecBonus == InitBonus /\ [][NextBonus]_vars

\* C6: _calculate_professional_bonus returns the sum of four tiered bonuses
\* capped at 25: 4/7/10 for 1/2/>=3 structural headers, 2/5/8 for 1-2/3-4/>=5
\* professional terms, 2/4/7 for 1/2-3/>=4 technical skills, 1/3/5 for
\* >=50/>=100/>=200 words, 0 for a family without matches or a text under 50
\* words; the result lies in 0..25 and is 0 for the empty text.
ProfessionalBonusTiers ==
    pc = "return" =>
        LET text == Lower(call.job_text)
            headers == CountContained(structure_indicators, text)
            terms == CountContained(professional_terms, text)
            skills == CountContained(technical_skills, text)
            words == WordCount(call.job_text)
            structure ==
                CASE headers = 0 -> 0 [] headers = 1 -> 4 [] headers = 2 -> 7
                  [] headers >= 3 -> 10
            professional ==
                CASE terms = 0 -> 0 [] terms \in 1..2 -> 2 [] terms \in 3..4 -> 5
                  [] terms >= 5 -> 8
            technical ==
                CASE skills = 0 -> 0 [] skills = 1 -> 2 [] skills \in 2..3 -> 4
                  [] skills >= 4 -> 7
            length ==
                CASE words < 50 -> 0 [] words \in 50..99 -> 1 [] words \in 100..199 -> 3
                  [] words >= 200 -> 5
            sum == structure + professional + technical + length
        IN  /\ returned = (IF sum > 25 THEN 25 ELSE sum)
            /\ returned \in 0..25
            /\ call.job_text = "" => returned = 0

\* a text earning the top tier of every family: 10 + 8 + 7 + 5 is capped
BonusCappedAtTwentyFive ==
    /\ pc = "return"
    /\ CountContained(structure_indicators, Lower(call.job_text)) >= 3
    /\ CountContained(professional_terms, Lower(call.job_text)) >= 5
    /\ CountContained(technical_skills, Lower(call.job_text)) >= 4
    /\ WordCount(call.job_text) >= 200
    /\ returned = 25

(***************************************************************************)
(* Requests on the platform multiplier (SpecPlatform)                      *)
(***************************************************************************)
\* the longest list of findings the platform analyzer returns in these runs
MaxPlatformFindings == 2

\* descriptions of the platform analyzer, and one naming two phrases in capitals
PlatformDescriptions ==
    {"Platform is known for high fraud rates",
     "Messaging apps are commonly used for scams",
     "Social media platforms have higher fraud risk",
     "Job posting only on social media platforms",
     "Platform has lower credibility rating",
     "Platform has moderate credibility rating",
     "Platform is associated with higher fraud rates",
     "LOWER CREDIBILITY after HIGH FRAUD reports"}

PlatformFindings ==
    {RiskFactor(PLATFORM_CREDIBILITY, 60, description, 80) :
        description \in PlatformDescriptions}

PlatformInputs ==
    {Input(PlainRequest(PlainText),
           ResultsOf(<<RiskFactor(TEXT_ANALYSIS, 60, "Urgency keywords", 80)>>, 80,
                     <<>>, <<>>, platform_factors)) :
        platform_factors \in SeqsUpTo(PlatformFindings, MaxPlatformFindings)}
    \cup {Input(PlainRequest(PlainText),
                Without(ResultsOf(<<RiskFactor(TEXT_ANALYSIS, 60, "Urgency keywords", 80)>>,
                                  80, <<>>, <<>>, <<>>), {"platform"}))}

InitPlatform == InitWith(PlatformInputs)

SpecPlatform == InitPlatform /\ [][Next]_vars

\* C7: the platform multiplier is the largest multiplier of a risk phrase
\* ('high fraud' 1.4, 'messaging apps' 1.3, 'social media' 1.2, 'lower
\* credibility' 1.1) that the description of some platform finding contains,
\* whatever the case of its letters, and 1.0 without a platform result, without
\* platform findings or without such a phrase; it is one of 1.0, 1.1, 1.2,
\* 1.3, 1.4.
PlatformMultiplierIsLargestPhrase ==
    Answered =>
        LET findings == IF "platform" \in DOMAIN analysis_results
                        THEN analysis_results["platform"].risk_factors ELSE <<>>
            phrases == {<<"high fraud", 14>>, <<"messaging apps", 13>>,
                        <<"social media", 12>>, <<"lower credibility", 11>>}
            tenths == {10} \cup
                      {phrase[2] : phrase \in
                          {ph \in phrases :
                              \E i \in DOMAIN findings :
                                  Contains(Lower(findings[i].description), ph[1])}}
            largest == CHOOSE m \in tenths : \A n \in tenths : n <= m
        IN  /\ scoring.platform_multiplier = Rat(largest, 10)
            /\ scoring.platform_multiplier \in
                   {RInt(1), Rat(11, 10), Rat(12, 10), Rat(13, 10), Rat(14, 10)}

\* the larger multiplier comes first and is spelled with a capital letter
MessagingBeforeLowerCredibility ==
    /\ Answered
    /\ "platform" \in DOMAIN analysis_results
    /\ Len(analysis_results["platform"].risk_factors) = 2
    /\ analysis_results["platform"].risk_factors[1].description
           = "Messaging apps are commonly used for scams"
    /\ analysis_results["platform"].risk_factors[2].description
           = "Platform has lower credibility rating"
    /\ scoring.platform_multiplier = Rat(13, 10)

(***************************************************************************)
(* Requests on the confidence label (SpecLabel)                            *)
(***************************************************************************)
\* job texts of 49 and of 50 words
LabelTexts == {PaddedTo("Hiring", 49), PaddedTo("Hiring", 50)}

\* requests with and without a company URL and a recruiter email, as sent
LabelRequests ==
    {JobAnalysisRequest(job_text, company_url, recruiter_email, "LinkedIn") :
        job_text \in LabelTexts,
        company_url \in {None, Some("  "), Some("https://example.com")},
        recruiter_email \in {None, Some(""), Some("HR@Example.com")}}

LabelResults ==
    {ResultsOf(text_factors, text_confidence, email_factors, url_factors, <<>>) :
        text_factors \in
            {<<>>,
             <<RiskFactor(TEXT_ANALYSIS, 69, "Urgency keywords", 80)>>,
             <<RiskFactor(TEXT_ANALYSIS, 20, "Capital letters", 60),
               RiskFactor(TEXT_ANALYSIS, 70, "Asks for payment", 90)>>},
        text_confidence \in {50, 69, 70, 79, 80, 100},
        email_factors \in
            {<<>>,
             <<RiskFactor(EMAIL_VALIDATION, 69, "Free email provider", 80)>>,
             <<RiskFactor(EMAIL_VALIDATION, 70, "Disposable email", 90)>>},
        url_factors \in
            {<<>>, <<RiskFactor(URL_VALIDATION, 100, "URL uses an IP address", 90)>>}}

LabelInputs ==
    {Input(req, results) : req \in LabelRequests, results \in LabelResults}
    \cup {Input(req, Without(results, {"text"})) :
            req \in LabelRequests,
            results \in {ResultsOf(<<>>, 100, <<>>, <<>>, <<>>),
                         ResultsOf(<<>>, 100, <<>>,
                                   <<RiskFactor(URL_VALIDATION, 100,
                                                "URL uses an IP address", 90)>>, <<>>)}}

InitLabel == InitWith(LabelInputs)

SpecLabel == InitLabel /\ [][Next]_vars

\* how many of recruiter_email, company_url and platform_source are non-empty
FieldsPresent ==
    Cardinality({field \in {"recruiter_email", "company_url"} : request[field] # None})
    + (IF request.platform_source # "" THEN 1 ELSE 0)

\* the confidence of the text analyzer in hundredths, 0.5 without a text result
TextConfidencePercent ==
    IF "text" \in DOMAIN analysis_results THEN analysis_results["text"].confidence ELSE 50

\* exactly one of the two sides (text findings, email and url findings) has a
\* finding of severity 70 or more
Contradictory ==
    LET side(keys) ==
            \E k \in keys \cap DOMAIN analysis_results :
                \E i \in DOMAIN analysis_results[k].risk_factors :
                    analysis_results[k].risk_factors[i].severity >= 70
    IN  side({"text"}) # side({"email", "url"})

HighConditions ==
    FieldsPresent >= 2 /\ TextConfidencePercent >= 80 /\ ~Contradictory

\* C8: the confidence label is High if and only if at least two of
\* recruiter_email, company_url and platform_source are non-empty (metadata
\* completeness at least 2/3), the confidence of the text analyzer is at least
\* 0.8 and the signals are not contradictory.
HighIffCompleteConfidentConsistent ==
    Answered => (response.confidence = "High" <=> HighConditions)

\* C9: when the conditions for High are not all met, the label is Medium if
\* the confidence of the text analyzer is at least 0.7 and job_text has at
\* least 50 words, and Low otherwise; the label is always one of High, Medium
\* and Low, and whenever it is not High it is the one this rule gives, whatever
\* the risk score.
MediumOrLowWhenNotHigh ==
    Answered =>
        LET rule == IF TextConfidencePercent >= 70 /\ WordCount(request.job_text) >= 50
                    THEN "Medium" ELSE "Low"
        IN  /\ response.confidence \in {"High", "Medium", "Low"}
            /\ ~HighConditions => response.confidence = rule
            /\ response.confidence # "High" => response.confidence = rule

\* complete metadata and a confident text analysis, but only the text side
\* has a finding of severity 70: Medium on a text of 50 words
ContradictoryYetMedium ==
    /\ Answered
    /\ FieldsPresent = 3
    /\ TextConfidencePercent >= 80
    /\ Contradictory
    /\ WordCount(request.job_text) = 50
    /\ response.confidence = "Medium"

(***************************************************************************)
(* Requests on the flags (SpecFlags)                                       *)
(***************************************************************************)
\* the most findings with descriptions of their own in one run
MaxFlagFindings == 9

\* the category of the k-th finding: three text findings, two email findings,
\* two url findings, the others from the platform analyzer
FlagCategory(k) ==
    IF k <= 3 THEN TEXT_ANALYSIS
    ELSE IF k <= 5 THEN EMAIL_VALIDATION
    ELSE IF k <= 7 THEN URL_VALIDATION
    ELSE PLATFORM_CREDIBILITY

\* the two findings the k-th place can hold: their products are 4000 or 9000
\* in odd places, 4000 or 2000 in even places
FlagChoices(k) ==
    IF k % 2 = 1
    THEN {RiskFactor(FlagCategory(k), 80, "Finding " \o ToString(k), 50),
          RiskFactor(FlagCategory(k), 90, "Finding " \o ToString(k), 100)}
    ELSE {RiskFactor(FlagCategory(k), 40, "Finding " \o ToString(k), 100),
          RiskFactor(FlagCategory(k), 20, "Finding " \o ToString(k), 100)}

RECURSIVE FlagLists(_)
\* every list of n findings, the k-th from FlagChoices(k)
FlagLists(n) ==
    IF n = 0 THEN {<<>>}
    ELSE {Append(fs, f) : fs \in FlagLists(n - 1), f \in FlagChoices(n)}

\* a last platform finding repeating an earlier description, or none
RepeatedFindings ==
    {<<>>,
     <<RiskFactor(PLATFORM_CREDIBILITY, 95, "Finding 2", 100)>>,
     <<RiskFactor(PLATFORM_CREDIBILITY, 10, "Finding 1", 100)>>}

\* the findings of one category in a list, in order
OfCategory(fs, category) == SelectSeq(fs, LAMBDA f : f.category = category)

FlagInputs ==
    {Input(PlainRequest(PlainText),
           ResultsOf(OfCategory(fs, TEXT_ANALYSIS), 80,
                     OfCategory(fs, EMAIL_VALIDATION),
                     OfCategory(fs, URL_VALIDATION),
                     OfCategory(fs, PLATFORM_CREDIBILITY) \o repeated)) :
        fs \in FlagLists(3) \cup FlagLists(MaxFlagFindings),
        repeated \in RepeatedFindings}

InitFlags == InitWith(FlagInputs)

SpecFlags == InitFlags /\ [][Next]_vars

\* the findings of the text, email, url and platform results, in that order
Pooled ==
    LET of(key) == IF key \in DOMAIN analysis_results
                   THEN analysis_results[key].risk_factors ELSE <<>>
    IN  of("text") \o of("email") \o of("url") \o of("platform")

\* the i-th pooled finding comes before the j-th once sorted: a larger
\* severity x confidence, or the same and pooled earlier
ComesBefore(i, j) ==
    \/ Pooled[i].severity * Pooled[i].confidence > Pooled[j].severity * Pooled[j].confidence
    \/ /\ Pooled[i].severity * Pooled[i].confidence = Pooled[j].severity * Pooled[j].confidence
       /\ i < j

\* the pooled findings that are the first of their description once sorted
FirstOfDescription ==
    {i \in DOMAIN Pooled :
        \A j \in DOMAIN Pooled \ {i} :
            Pooled[j].description = Pooled[i].description => ComesBefore(i, j)}

\* C10: flags holds the first 8 distinct descriptions of the pooled findings
\* (text, email, url, platform) in descending order of severity x confidence,
\* findings of equal product in pooling order: at most 8 entries, no entry
\* twice, each entry taken from the first finding of its description, in
\* non-increasing order of the products of these findings.
FlagsAreFirstEightDistinct ==
    Answered =>
        LET flags == response.flags
            source(k) == CHOOSE i \in FirstOfDescription :
                             Pooled[i].description = flags[k]
        IN  /\ Len(flags) <= 8
            /\ Len(flags) = IF Cardinality(FirstOfDescription) > 8
                            THEN 8 ELSE Cardinality(FirstOfDescription)
            /\ \A k, l \in DOMAIN flags : k # l => flags[k] # flags[l]
            /\ \A k \in DOMAIN flags :
                /\ \E i \in FirstOfDescription : Pooled[i].description = flags[k]
                /\ Cardinality({j \in FirstOfDescription : ComesBefore(j, source(k))}) = k - 1
            /\ \A k \in DOMAIN flags :
                k > 1 =>
                    /\ Pooled[source(k - 1)].severity * Pooled[source(k - 1)].confidence
                           >= Pooled[source(k)].severity * Pooled[source(k)].confidence
                    /\ ComesBefore(source(k - 1), source(k))

\* more than 8 descriptions, one of them twice, and two neighbouring flags of
\* equal product
EightFlagsWithTieAndRepeat ==
    /\ Answered
    /\ Len(response.flags) = 8
    /\ Cardinality(FirstOfDescription) > 8
    /\ Cardinality(FirstOfDescription) < Len(Pooled)
    /\ \E i, j \in FirstOfDescription :
        /\ i < j
        /\ Pooled[i].severity * Pooled[i].confidence = Pooled[j].severity * Pooled[j].confidence
        /\ \E k \in 1..7 : /\ response.flags[k] = Pooled[i].description
                           /\ response.flags[k + 1] = Pooled[j].description

(***************************************************************************)
(* Totality of the scoring (SpecScore)                                     *)
(***************************************************************************)
\* the categories with a weight whose findings have a positive total confidence
EffectiveCategories ==
    {category \in DOMAIN category_weights :
        \E i \in DOMAIN Pooled :
            Pooled[i].category = category /\ Pooled[i].confidence > 0}

\* C11: for all well-formed analyzer results (all four without findings, a
\* category missing, findings whose confidences are all 0) the computation of
\* the score and of the confidence label raises nothing, and the base score is
\* 0 when no category has an effective weight.
ScoringIsTotal ==
    /\ pc # "raised"
    /\ exception = None
    /\ Answered =>
        /\ response.risk_score \in 0..100
        /\ response.confidence \in ConfidenceEnum
        /\ EffectiveCategories = {} => scoring.base_score = RInt(0)

\* findings in the text category, all of confidence 0, and a score of 0
ZeroConfidenceFindingsAnswered ==
    /\ Answered
    /\ \E i \in DOMAIN Pooled : Pooled[i].category = TEXT_ANALYSIS
    /\ \A i \in DOMAIN Pooled : Pooled[i].confidence = 0
    /\ scoring.base_score = RInt(0)
    /\ response.risk_score = 0

(***************************************************************************)
(* Pattern matching helpers.  Each regular expression of the source is     *)
(* computed character by character from these.                             *)
(***************************************************************************)
Digits == "0123456789"

Letters == LowerChars \o UpperChars

AlphaNumerics == Letters \o Digits

\* one character of a character class [chars]
InChars(c, chars) == \E k \in 1..Len(chars) : Char(chars, k) = c

\* [chars]* over the whole string
AllIn(str, chars) == \A i \in 1..Len(str) : InChars(Char(str, i), chars)

\* str.startswith(prefix)
StartsWith(str, prefix) ==
    Len(prefix) <= Len(str) /\ SubSeq(str, 1, Len(prefix)) = prefix

\* str.endswith(suffix)
EndsWith(str, suffix) ==
    Len(suffix) <= Len(str) /\ SubSeq(str, Len(str) - Len(suffix) + 1, Len(str)) = suffix

\* the substring sub occurs in str at position i
OccursAt(str, sub, i) ==
    i >= 1 /\ i + Len(sub) - 1 <= Len(str) /\ SubSeq(str, i, i + Len(sub) - 1) = sub

\* str.count(c) for a single character c
CountChar(str, c) == Cardinality({i \in 1..Len(str) : Char(str, i) = c})

\* the position of the first occurrence of one of the characters, or Len(str) + 1
FirstOf(str, chars) ==
    LET hits == {i \in 1..Len(str) : InChars(Char(str, i), chars)}
    IN  IF hits = {} THEN Len(str) + 1 ELSE CHOOSE i \in hits : \A j \in hits : i <= j

\* str[i:]
From(str, i) == SubSeq(str, i, Len(str))

\* str.split(c)[0] and the remainder after the first c
BeforeFirst(str, c) == SubSeq(str, 1, FirstOf(str, c) - 1)

AfterFirst(str, c) == From(str, FirstOf(str, c) + 1)

RECURSIVE Split(_, _)
\* str.split(c) for a single character c
Split(str, c) ==
    IF FirstOf(str, c) > Len(str) THEN <<str>>
    ELSE <<BeforeFirst(str, c)>> \o Split(AfterFirst(str, c), c)

RECURSIVE RunLength(_, _, _)
\* the length of the run of characters of the class that starts at position i
RunLength(str, chars, i) ==
    IF i \in 1..Len(str) /\ InChars(Char(str, i), chars)
    THEN 1 + RunLength(str, chars, i + 1)
    ELSE 0

\* [chars]{n,} found somewhere in str
HasRun(str, chars, n) == \E i \in 1..Len(str) : RunLength(str, chars, i) >= n

\* any(word in str for word in words)
ContainsAny(str, words) == \E k \in 1..Len(words) : Contains(str, words[k])

\* the first word of the list that str contains, as a list of at most one word
FirstContained(str, words) ==
    LET hits == {k \in 1..Len(words) : Contains(str, words[k])}
    IN  IF hits = {} THEN <<>> ELSE <<words[CHOOSE k \in hits : \A j \in hits : k <= j]>>

\* the first suffix of the list that str ends with, as a list of at most one
FirstSuffix(str, suffixes) ==
    LET hits == {k \in 1..Len(suffixes) : EndsWith(str, suffixes[k])}
    IN  IF hits = {} THEN <<>> ELSE <<suffixes[CHOOSE k \in hits : \A j \in hits : k <= j]>>

\* x in list
InList(x, list) == \E k \in 1..Len(list) : list[k] = x

(***************************************************************************)
(* EmailAnalyzer (app/analyzers/email_analyzer.py)                         *)
(***************************************************************************)
\* ^[a-zA-Z0-9._%+-]+@[a-zA-Z0-9.-]+\.[a-zA-Z]{2,}$
EmailPattern(email) ==
    \E at \in 2..Len(email) : \E dot \in (at + 2)..(Len(email) - 2) :
        /\ Char(email, at) = "@"
        /\ Char(email, dot) = "."
        /\ AllIn(SubSeq(email, 1, at - 1), AlphaNumerics \o "._%+-")
        /\ AllIn(SubSeq(email, at + 1, dot - 1), AlphaNumerics \o ".-")
        /\ AllIn(From(email, dot + 1), Letters)

EmailFactor(severity, description, confidence) ==
    RiskFactor(EMAIL_VALIDATION, severity, description, confidence)

\* _validate_email_format: <<format_valid, risk factors appended>>
ValidateEmailFormat(email) ==
    IF ~EmailPattern(email)
    THEN <<FALSE, <<EmailFactor(90, "Invalid email format", 100)>>>>
    ELSE IF CountChar(email, "@") # 1
    THEN <<FALSE, <<EmailFactor(95, "Email contains multiple @ symbols", 100)>>>>
    ELSE LET username == BeforeFirst(email, "@")
             domain == AfterFirst(email, "@")
         IN  IF Len(username) < 1
             THEN <<FALSE, <<EmailFactor(100, "Email username is empty", 100)>>>>
             ELSE <<TRUE,
                    (IF Len(username) > 64
                     THEN <<EmailFactor(60, "Email username exceeds recommended length", 80)>>
                     ELSE <<>>)
                    \o (IF Len(domain) > 253
                        THEN <<EmailFactor(70, "Email domain exceeds maximum length", 90)>>
                        ELSE <<>>)>>

TempEmailServices == <<"10minutemail", "tempmail", "guerrillamail", "mailinator", "throwaway">>

SuspiciousEmailTlds == <<"tk", "ml", "ga", "cf", "click", "download", "zip">>

\* suspicious_patterns, in dict order; the email is already lower-cased
EmailTempEmail(email) ==
    \E k \in 1..Len(TempEmailServices) : Contains(email, "@" \o TempEmailServices[k])

EmailRandomChars(email) ==
    LET n == RunLength(email, AlphaNumerics, 1) IN n >= 20 /\ Char(email, n + 1) = "@"

EmailNumbersOnly(email) ==
    LET n == RunLength(email, Digits, 1) IN n >= 1 /\ Char(email, n + 1) = "@"

EmailSuspiciousTlds(email) ==
    \E k \in 1..Len(SuspiciousEmailTlds) : EndsWith(email, "." \o SuspiciousEmailTlds[k])

\* _check_suspicious_patterns
CheckEmailSuspiciousPatterns(email) ==
    (IF EmailTempEmail(email)
     THEN <<EmailFactor(85, "Uses temporary/disposable email service", 80)>> ELSE <<>>)
    \o (IF EmailRandomChars(email)
        THEN <<EmailFactor(60, "Username appears to be randomly generated", 80)>> ELSE <<>>)
    \o (IF EmailNumbersOnly(email)
        THEN <<EmailFactor(40, "Username contains only numbers", 80)>> ELSE <<>>)
    \o (IF EmailSuspiciousTlds(email)
        THEN <<EmailFactor(70, "Uses suspicious top-level domain", 80)>> ELSE <<>>)

DisposableDomains ==
    {"10minutemail.com", "tempmail.org", "guerrillamail.com", "mailinator.com",
     "throwaway.email", "temp-mail.org", "fakeinbox.com", "dispostable.com", "yopmail.com"}

EmailTyposquatting == <<"gmai1.com", "yaho0.com", "hotmai1.com", "outlok.com">>

VeryNewTlds == <<".tk", ".ml", ".ga", ".cf", ".click", ".download", ".zip">>

\* ^[a-z0-9]{15,}\.(?:com|net|org)$ matched against the domain
EmailRandomDomain(domain) ==
    LET n == RunLength(domain, LowerChars \o Digits, 1)
    IN  n >= 15 /\ From(domain, n + 1) \in {".com", ".net", ".org"}

\* _check_domain_reputation
CheckDomainReputation(domain) ==
    IF domain \in DisposableDomains
    THEN <<EmailFactor(80, "Uses known disposable email domain", 90)>>
    ELSE (IF InList(domain, EmailTyposquatting)
          THEN <<EmailFactor(75, "Domain appears to be typosquatting a legitimate service", 80)>>
          ELSE <<>>)
         \o [k \in 1..Len(FirstSuffix(domain, VeryNewTlds)) |->
                EmailFactor(50, "Uses potentially suspicious TLD: "
                                    \o FirstSuffix(domain, VeryNewTlds)[k], 60)]
         \o (IF EmailRandomDomain(domain)
             THEN <<EmailFactor(55, "Domain name appears randomly generated", 70)>>
             ELSE <<>>)

DisposableKeywords == <<"temp", "throw", "disposable", "fake", "10min", "guerrilla">>

\* _check_disposable_email
CheckDisposableEmail(domain) ==
    [k \in 1..Len(FirstContained(domain, DisposableKeywords)) |->
        EmailFactor(70, "Domain contains disposable email indicator: '"
                            \o FirstContained(domain, DisposableKeywords)[k] \o "'", 70)]

MajorProviders ==
    {"gmail.com", "yahoo.com", "hotmail.com", "outlook.com",
     "aol.com", "icloud.com", "protonmail.com", "zoho.com"}

EmailSuspiciousKeywords == <<"money", "cash", "urgent", "immediate", "quick", "easy", "guaranteed">>

\* highly_unprofessional_patterns searched in the username; only the first
\* pattern that matches appends, so the four collapse into one test
HighlyUnprofessional(username) ==
    \/ ContainsAny(username, <<"money", "cash", "rich", "wealth", "profit">>)
    \/ ContainsAny(username, <<"urgent", "asap", "quick", "fast", "easy">>)
    \/ HasRun(username, "xX", 3)
    \/ HasRun(username, Digits, 6)

\* _check_suspicious_email_characteristics
CheckSuspiciousEmailCharacteristics(email, domain) ==
    LET username == BeforeFirst(email, "@")
    IN  (IF domain \in MajorProviders /\ ContainsAny(Lower(username), EmailSuspiciousKeywords)
         THEN <<EmailFactor(60, "Personal email with finance/urgency keywords", 70)>>
         ELSE <<>>)
        \o (IF HighlyUnprofessional(username)
            THEN <<EmailFactor(50, "Email username contains suspicious keywords", 70)>>
            ELSE <<>>)

\* _calculate_confidence, in hundredths
EmailConfidence(email, format_valid, risk_factor_count) ==
    IF ~format_valid THEN 90
    ELSE Min(100, 80
                  + (IF Contains(email, "@") /\ Len(Split(email, "@")[2]) > 0 THEN 10 ELSE 0)
                  + (IF risk_factor_count > 0 THEN Min(10, risk_factor_count * 2) ELSE 0))

\* EmailAnalyzer.analyze
EmailAnalyze(recruiter_email) ==
    IF Strip(recruiter_email) = ""
    THEN AnalysisResult(<<>>, 100, "EmailAnalyzer")
    ELSE LET email == Lower(Strip(recruiter_email))
             validation == ValidateEmailFormat(email)
             format_valid == validation[1]
             domain == Split(email, "@")[2]
             risk_factors ==
                 validation[2]
                 \o (IF format_valid
                     THEN CheckEmailSuspiciousPatterns(email)
                          \o CheckDomainReputation(domain)
                          \o CheckDisposableEmail(domain)
                          \o CheckSuspiciousEmailCharacteristics(email, domain)
                     ELSE <<>>)
         IN  AnalysisResult(risk_factors,
                            EmailConfidence(email, format_valid, Len(risk_factors)),
                            "EmailAnalyzer")

(***************************************************************************)
(* URLAnalyzer (app/analyzers/url_analyzer.py)                             *)
(***************************************************************************)
\* a builtin exception, raised by a library call
ValueError == Raised("ValueError")

\* int(c) for one decimal digit
DigitValue(c) == (CHOOSE k \in 1..10 : Char(Digits, k) = c) - 1

RECURSIVE ParseInt(_)
\* int(str) for a string of decimal digits
ParseInt(str) ==
    IF Len(str) = 0 THEN 0
    ELSE 10 * ParseInt(SubSeq(str, 1, Len(str) - 1)) + DigitValue(Char(str, Len(str)))

\* str.lstrip('0')
StripLeadingZeros(str) == From(str, RunLength(str, "0", 1) + 1)

\* the length of the scheme prefix http:// or https:// at position i, or 0;
\* given the lower-cased text it is the match under IGNORECASE
SchemeAt(str, i) ==
    IF OccursAt(str, "http://", i) THEN 7
    ELSE IF OccursAt(str, "https://", i) THEN 8
    ELSE 0

\* [A-Z0-9](?:[A-Z0-9-]{0,61}[A-Z0-9])? under IGNORECASE
IsLabel(part) ==
    /\ Len(part) \in 1..63
    /\ InChars(Char(part, 1), AlphaNumerics)
    /\ InChars(Char(part, Len(part)), AlphaNumerics)
    /\ AllIn(part, AlphaNumerics \o "-")

\* (?:label\.)+[A-Z]{2,6}\.? under IGNORECASE
IsDomainName(host) ==
    LET name == IF EndsWith(host, ".") THEN SubSeq(host, 1, Len(host) - 1) ELSE host
        parts == Split(name, ".")
    IN  /\ Len(parts) >= 2
        /\ Len(parts[Len(parts)]) \in 2..6
        /\ AllIn(parts[Len(parts)], Letters)
        /\ \A k \in 1..(Len(parts) - 1) : IsLabel(parts[k])

\* \d{1,3}\.\d{1,3}\.\d{1,3}\.\d{1,3}
IsIPv4(host) ==
    LET parts == Split(host, ".")
    IN  /\ Len(parts) = 4
        /\ \A k \in 1..4 : Len(parts[k]) \in 1..3 /\ AllIn(parts[k], Digits)

\* (?::\d+)?(?:/?|[/?]\S+)$
IsPortAndPath(tail) ==
    LET digits == IF StartsWith(tail, ":") THEN RunLength(tail, Digits, 2) ELSE 0
        path == IF digits > 0 THEN From(tail, digits + 2) ELSE tail
    IN  \/ path = ""
        \/ path = "/"
        \/ /\ Len(path) >= 2
           /\ InChars(Char(path, 1), "/?")
           /\ \A i \in 2..Len(path) : ~IsSpace(Char(path, i))

\* url_pattern.match(url); validate_company_url of the request uses the same
\* expression
UrlPattern(url) ==
    LET scheme == SchemeAt(Lower(url), 1)
        rest == From(url, scheme + 1)
        host == SubSeq(rest, 1, FirstOf(rest, ":/?") - 1)
    IN  /\ scheme > 0
        /\ Lower(host) = "localhost" \/ IsIPv4(host) \/ IsDomainName(host)
        /\ IsPortAndPath(From(rest, Len(host) + 1))

\* urlparse(url): the scheme and the network location
UrlParse(url) ==
    LET colon == FirstOf(url, ":")
        rest == From(url, colon + 1)
        tail == From(rest, 3)
    IN  IF colon <= Len(url) /\ StartsWith(rest, "//")
        THEN [scheme |-> Lower(SubSeq(url, 1, colon - 1)),
              netloc |-> SubSeq(tail, 1, FirstOf(tail, "/?#") - 1)]
        ELSE [scheme |-> IF colon <= Len(url) THEN Lower(SubSeq(url, 1, colon - 1)) ELSE "",
              netloc |-> ""]

\* ParseResult.port raises ValueError for a port that is not a number or is
\* out of range
PortRaises(parsed) ==
    LET port == AfterFirst(parsed.netloc, ":")
    IN  /\ port # ""
        /\ \/ ~AllIn(port, Digits)
           \/ Len(StripLeadingZeros(port)) > 5
           \/ ParseInt(StripLeadingZeros(port)) > 65535

\* ParseResult.port when it does not raise: None without a port
UrlPort(parsed) ==
    LET port == AfterFirst(parsed.netloc, ":")
    IN  IF port = "" THEN None ELSE Some(ParseInt(port))

UrlFactor(severity, description, confidence) ==
    RiskFactor(URL_VALIDATION, severity, description, confidence)

\* _validate_url_format: <<format_valid, risk factors appended>>
ValidateUrlFormat(url) ==
    IF ~UrlPattern(url)
    THEN <<FALSE, <<UrlFactor(90, "Invalid URL format", 100)>>>>
    ELSE IF UrlParse(url).scheme \notin {"http", "https"}
    THEN <<FALSE, <<UrlFactor(80, "Missing or invalid URL scheme (http/https)", 90)>>>>
    ELSE IF UrlParse(url).netloc = ""
    THEN <<FALSE, <<UrlFactor(95, "Missing domain in URL", 100)>>>>
    ELSE <<TRUE, IF Len(url) > 2000
                 THEN <<UrlFactor(50, "URL is unusually long", 70)>> ELSE <<>>>>

\* \d{1,3}\.\d{1,3}\.\d{1,3}\.\d{1,3} starting at position i
IPv4At(str, i) ==
    LET a == RunLength(str, Digits, i)
        b == RunLength(str, Digits, i + a + 1)
        c == RunLength(str, Digits, i + a + b + 2)
    IN  /\ a \in 1..3 /\ Char(str, i + a) = "."
        /\ b \in 1..3 /\ Char(str, i + a + b + 1) = "."
        /\ c \in 1..3 /\ Char(str, i + a + b + c + 2) = "."
        /\ RunLength(str, Digits, i + a + b + c + 3) >= 1

\* suspicious_patterns, in dict order
UrlIpAddress(url) ==
    \E i \in 1..Len(url) : SchemeAt(url, i) > 0 /\ IPv4At(url, i + SchemeAt(url, i))

UrlSuspiciousTldList ==
    <<"tk", "ml", "ga", "cf", "click", "download", "zip", "bit", "ly", "tinyurl">>

UrlSuspiciousTlds(url) ==
    \E k \in 1..Len(UrlSuspiciousTldList) :
        \/ EndsWith(Lower(url), "." \o UrlSuspiciousTldList[k])
        \/ Contains(Lower(url), "." \o UrlSuspiciousTldList[k] \o "/")

UrlShortenerPatterns == <<"bit.ly", "tinyurl", "t.co", "goo.gl", "short.link", "ow.ly">>

UrlExcessiveSubdomains(url) ==
    LET rest == From(url, SchemeAt(url, 1) + 1)
        parts == Split(BeforeFirst(rest, "/"), ".")
    IN  /\ SchemeAt(url, 1) > 0
        /\ Len(parts) >= 5
        /\ \A k \in 1..4 : Len(parts[k]) > 0

UrlSuspiciousKeywords == <<"free", "temp", "test", "demo", "fake", "scam", "phish">>

UrlRandomDomains(url) ==
    \E i \in 1..Len(url) :
        LET start == i + SchemeAt(Lower(url), i)
            n == RunLength(Lower(url), LowerChars \o Digits, start)
            tail == From(Lower(url), start + n)
        IN  /\ SchemeAt(Lower(url), i) > 0
            /\ n >= 15
            /\ \E tld \in {".com", ".net", ".org"} : tail = tld \/ StartsWith(tail, tld \o "/")

\* _check_suspicious_patterns
CheckUrlSuspiciousPatterns(url) ==
    (IF UrlIpAddress(url)
     THEN <<UrlFactor(70, "Uses IP address instead of domain name", 80)>> ELSE <<>>)
    \o (IF UrlSuspiciousTlds(url)
        THEN <<UrlFactor(60, "Uses suspicious top-level domain", 80)>> ELSE <<>>)
    \o (IF ContainsAny(Lower(url), UrlShortenerPatterns)
        THEN <<UrlFactor(75, "Uses URL shortening service", 80)>> ELSE <<>>)
    \o (IF UrlExcessiveSubdomains(url)
        THEN <<UrlFactor(55, "Has excessive number of subdomains", 80)>> ELSE <<>>)
    \o (IF ContainsAny(Lower(url), UrlSuspiciousKeywords)
        THEN <<UrlFactor(65, "Contains suspicious keywords in domain", 80)>> ELSE <<>>)
    \o (IF UrlRandomDomains(url)
        THEN <<UrlFactor(50, "Domain appears randomly generated", 80)>> ELSE <<>>)

UrlTyposquatting ==
    <<"gooogle.com", "microsooft.com", "amazoon.com", "facebok.com",
      "linkedinn.com", "appple.com", "netflixx.com">>

GenericSuspicious ==
    <<"example.com", "test.com", "demo.com", "temp.com", "fake.com", "scam.com", "phishing.com">>

\* [a-z0-9]{8,}\.(tk|ml|ga|cf)$ matched against the domain
RandomWithSuspiciousTld(domain) ==
    LET n == RunLength(domain, LowerChars \o Digits, 1)
    IN  n >= 8 /\ From(domain, n + 1) \in {".tk", ".ml", ".ga", ".cf"}

\* _check_suspicious_domain_characteristics
CheckSuspiciousDomainCharacteristics(parsed_url) ==
    LET domain == BeforeFirst(Lower(parsed_url.netloc), ":")
        domain_parts == Split(domain, ".")
    IN  IF InList(domain, UrlTyposquatting)
        THEN <<UrlFactor(85, "Domain is known to be suspicious (typosquatting)", 90)>>
        ELSE IF InList(domain, GenericSuspicious)
        THEN <<UrlFactor(90, "Domain is known to be suspicious (generic_suspicious)", 90)>>
        ELSE (IF /\ Len(domain_parts) >= 2
                 /\ Len(domain_parts[1]) > 0
                 /\ AllIn(domain_parts[1], Digits)
              THEN <<UrlFactor(70, "Domain name consists only of numbers", 80)>> ELSE <<>>)
             \o (IF CountChar(domain_parts[1], "-") > 4
                 THEN <<UrlFactor(50, "Domain contains excessive hyphens", 70)>> ELSE <<>>)
             \o (IF RandomWithSuspiciousTld(domain)
                 THEN <<UrlFactor(65, "Random domain with suspicious TLD", 80)>> ELSE <<>>)

ShortenerServices ==
    <<"bit.ly", "tinyurl.com", "t.co", "goo.gl", "short.link",
      "ow.ly", "is.gd", "buff.ly", "rebrand.ly", "cutt.ly">>

\* _check_url_shorteners
CheckUrlShorteners(url) ==
    [k \in 1..Len(FirstContained(Lower(url), ShortenerServices)) |->
        UrlFactor(70, "Uses URL shortening service ("
                          \o FirstContained(Lower(url), ShortenerServices)[k] \o ")", 80)]

SuspiciousPorts == {8080, 8000, 3000, 4000, 5000, 9000, 9999}

\* _check_suspicious_ports: the risk factors appended, when parsed_url.port
\* does not raise
CheckSuspiciousPorts(parsed_url) ==
    LET port == UrlPort(parsed_url)
    IN  IF port = None THEN <<>>
        ELSE IF port[1] \in SuspiciousPorts
        THEN <<UrlFactor(45, "Uses potentially suspicious port number: " \o ToString(port[1]), 60)>>
        ELSE <<>>

\* _calculate_confidence, in hundredths
UrlConfidence(url, format_valid, risk_factor_count) ==
    IF ~format_valid THEN 90
    ELSE Min(100, 80
                  + (IF UrlParse(url).netloc # "" /\ UrlParse(url).scheme # "" THEN 10 ELSE 0)
                  + (IF risk_factor_count > 0 THEN Min(10, risk_factor_count * 2) ELSE 0))

\* URLAnalyzer.analyze: the result, or the exception that leaves it
UrlAnalyze(company_url) ==
    IF Strip(company_url) = ""
    THEN AnalysisResult(<<>>, 100, "URLAnalyzer")
    ELSE LET url == Strip(company_url)
             validation == ValidateUrlFormat(url)
             format_valid == validation[1]
             parsed_url == UrlParse(url)
             risk_factors ==
                 validation[2]
                 \o (IF format_valid
                     THEN CheckUrlSuspiciousPatterns(url)
                          \o CheckSuspiciousDomainCharacteristics(parsed_url)
                          \o CheckUrlShorteners(url)
                          \o CheckSuspiciousPorts(parsed_url)
                     ELSE <<>>)
         IN  IF format_valid /\ PortRaises(parsed_url) THEN Failure(ValueError)
             ELSE AnalysisResult(risk_factors,
                                 UrlConfidence(url, format_valid, Len(risk_factors)),
                                 "URLAnalyzer")

(***************************************************************************)
(* TextAnalyzer (app/analyzers/text_analyzer.py)                           *)
(*                                                                         *)
(* Texts are over the printable ASCII characters with the space as the     *)
(* only whitespace, so `.` of a regular expression matches every character *)
(* of a text and a text is a single line.                                  *)
(***************************************************************************)
\* \w at position i; FALSE outside the string
WordAt(str, i) == i \in 1..Len(str) /\ InChars(Char(str, i), AlphaNumerics \o "_")

\* \b between positions i - 1 and i
Boundary(str, i) == WordAt(str, i - 1) # WordAt(str, i)

RECURSIVE CountMatches(_, _)
\* len(pattern.findall(text)) from position i on, given for every position
\* the length of the match that starts there (0 for none): the leftmost match
\* is taken and the search resumes after it
CountMatches(lengths, i) ==
    LET starts == {j \in i..Len(lengths) : lengths[j] > 0}
        first == CHOOSE j \in starts : \A k \in starts : j <= k
    IN  IF starts = {} THEN 0
        ELSE 1 + CountMatches(lengths, first + lengths[first])

\* [A-Z]{5,}
ExcessiveCapsAt(text, i) ==
    IF RunLength(text, UpperChars, i) >= 5 THEN RunLength(text, UpperChars, i) ELSE 0

\* !{2,}
ExcessiveExclamationAt(text, i) ==
    IF RunLength(text, "!", i) >= 2 THEN RunLength(text, "!", i) ELSE 0

\* \b\d{3}[-.]?\d{3}[-.]?\d{4}\b
PhoneAt(text, i) ==
    LET sep1 == IF InChars(Char(text, i + 3), "-.") THEN 1 ELSE 0
        sep2 == IF InChars(Char(text, i + 6 + sep1), "-.") THEN 1 ELSE 0
        end == i + 10 + sep1 + sep2
    IN  IF /\ Boundary(text, i)
           /\ end - 1 <= Len(text)
           /\ AllIn(SubSeq(text, i, i + 2), Digits)
           /\ AllIn(SubSeq(text, i + 3 + sep1, i + 5 + sep1), Digits)
           /\ AllIn(SubSeq(text, i + 6 + sep1 + sep2, end - 1), Digits)
           /\ Boundary(text, end)
        THEN end - i ELSE 0

\* \b[A-Za-z0-9._%+-]+@[A-Za-z0-9.-]+\.[A-Z|a-z]{2,}\b : the local part runs up
\* to the @, the last dot of the domain run that a top-level part can follow
\* is taken, and then the longest top-level part that ends at a \b
EmailAt(text, i) ==
    LET local == RunLength(text, AlphaNumerics \o "._%+-", i)
        at == i + local
        run == RunLength(text, AlphaNumerics \o ".-", at + 1)
        ends == {<<dot, e>> \in ((at + 2)..(at + run)) \X ((at + 4)..Len(text)) :
                    /\ Char(text, dot) = "."
                    /\ e >= dot + 2
                    /\ AllIn(SubSeq(text, dot + 1, e), Letters \o "|")
                    /\ Boundary(text, e + 1)}
        best == CHOOSE p \in ends :
                    \A q \in ends : q[1] < p[1] \/ (q[1] = p[1] /\ q[2] <= p[2])
    IN  IF Boundary(text, i) /\ local >= 1 /\ Char(text, at) = "@" /\ ends # {}
        THEN best[2] - i + 1 ELSE 0

RECURSIVE ThousandsGroups(_, _)
\* the length of (?:,\d{3})* at position i
ThousandsGroups(text, i) ==
    IF Char(text, i) = "," /\ i + 3 <= Len(text) /\ AllIn(SubSeq(text, i + 1, i + 3), Digits)
    THEN 4 + ThousandsGroups(text, i + 4)
    ELSE 0

\* \$\d+(?:,\d{3})*(?:\.\d{2})?
MoneyAt(text, i) ==
    LET digits == RunLength(text, Digits, i + 1)
        groups == ThousandsGroups(text, i + 1 + digits)
        cents == i + 1 + digits + groups
    IN  IF Char(text, i) = "$" /\ digits >= 1
        THEN 1 + digits + groups
             + (IF /\ Char(text, cents) = "."
                   /\ cents + 2 <= Len(text)
                   /\ AllIn(SubSeq(text, cents + 1, cents + 2), Digits)
                THEN 3 ELSE 0)
        ELSE 0

SalaryPeriods == <<"/week", "/day", "weekly", "daily">>

\* \$(?:[5-9]\d{3,}|\d{5,})(?:/week|/day|weekly|daily) under IGNORECASE, on
\* the lower-cased text
UnrealisticSalaryAt(lower, i) ==
    LET digits == RunLength(lower, Digits, i + 1)
        periods == {k \in 1..Len(SalaryPeriods) :
                        OccursAt(lower, SalaryPeriods[k], i + 1 + digits)}
    IN  IF /\ Char(lower, i) = "$"
           /\ \/ digits >= 5
              \/ digits >= 4 /\ InChars(Char(lower, i + 1), "56789")
           /\ periods # {}
        THEN 1 + digits + Len(SalaryPeriods[CHOOSE k \in periods : \A j \in periods : k <= j])
        ELSE 0

\* the length of the first word of the list that stands at position i between
\* two \b, or 0
WholeWordAt(lower, words, i) ==
    LET hits == {k \in 1..Len(words) :
                    /\ OccursAt(lower, words[k], i)
                    /\ Boundary(lower, i + Len(words[k]))}
    IN  IF ~Boundary(lower, i) \/ hits = {} THEN 0 ELSE Len(words[CHOOSE k \in hits : \A j \in hits : k <= j])

GrammarWords == <<"there", "their", "they're">>

\* \b(?:there|their|they're)\b.*\b(?:there|their|they're)\b under IGNORECASE,
\* on the lower-cased text: from one of the words to the last of them
PoorGrammarAt(lower, i) ==
    LET first == WholeWordAt(lower, GrammarWords, i)
        later == {j \in (i + first)..Len(lower) : WholeWordAt(lower, GrammarWords, j) > 0}
        last == CHOOSE j \in later : \A k \in later : j >= k
    IN  IF first > 0 /\ later # {}
        THEN last + WholeWordAt(lower, GrammarWords, last) - i
        ELSE 0

\* [\$...]: of the currency symbols only the dollar is an ASCII character
CurrencyAt(text, i) == IF Char(text, i) = "$" THEN 1 ELSE 0

InstantWords == <<"instant", "immediate", "now", "today", "asap">>

\* \b(?:instant|immediate|now|today|asap)\b under IGNORECASE, on the
\* lower-cased text
InstantKeywordAt(lower, i) == WholeWordAt(lower, InstantWords, i)

\* fraud_keywords, in dict order
FraudKeywordCategories ==
    <<"personal_info_requests", "financial_requests", "urgency_pressure",
      "unrealistic_promises", "vague_descriptions", "communication_red_flags">>

FraudKeywords ==
    [personal_info_requests |->
        <<"ssn", "social security", "bank account", "routing number",
          "credit card", "personal information", "id copy", "passport copy",
          "driver license", "birth certificate", "tax information">>,
     financial_requests |->
        <<"processing fee", "training fee", "equipment fee", "startup cost",
          "registration fee", "background check fee", "send money",
          "wire transfer", "western union", "moneygram", "cash advance",
          "money transfer", "transfer funds", "transfer money">>,
     urgency_pressure |->
        <<"immediate start", "urgent hiring", "start immediately", "asap",
          "quick hire", "fast hiring", "limited time", "act now",
          "don't wait", "hurry", "expires soon", "today only">>,
     unrealistic_promises |->
        <<"no experience required", "guaranteed income", "easy money",
          "work from home guaranteed", "make money fast", "get rich quick",
          "high pay no experience", "earn thousands weekly", "instant success">>,
     vague_descriptions |->
        <<"various duties", "other duties as assigned", "miscellaneous tasks",
          "general office work", "data entry", "customer service representative",
          "administrative assistant", "personal assistant">>,
     communication_red_flags |->
        <<"whatsapp", "telegram", "text message", "sms only",
          "contact via text", "message me", "call this number",
          "email me directly", "respond asap">>]

FraudSeverity ==
    [personal_info_requests |-> 100, financial_requests |-> 98, urgency_pressure |-> 65,
     unrealistic_promises |-> 75, vague_descriptions |-> 30, communication_red_flags |-> 55]

\* category.replace('_', ' ')
Spaced(name) ==
    Join([k \in 1..Len(Split(name, "_")) |-> Split(name, "_")[k]], " ")

TextFactor(severity, description, confidence) ==
    RiskFactor(TEXT_ANALYSIS, severity, description, confidence)

\* the risk factor of one keyword category, if any of its keywords occur
FraudKeywordFactor(category, job_text_lower) ==
    LET matches == SelectSeq(FraudKeywords[category],
                             LAMBDA keyword : Contains(job_text_lower, keyword))
    IN  IF Len(matches) = 0 THEN <<>>
        ELSE <<TextFactor(Min(100, FraudSeverity[category] + (Len(matches) - 1) * 5),
                          "Contains " \o Spaced(category) \o " keywords: "
                              \o Join(SubSeq(matches, 1, Min(3, Len(matches))), ", "),
                          IF category \in {"personal_info_requests", "financial_requests"}
                          THEN 90 ELSE 80)>>

\* _check_fraud_keywords
CheckFraudKeywords(job_text_lower) ==
    FraudKeywordFactor(FraudKeywordCategories[1], job_text_lower)
    \o FraudKeywordFactor(FraudKeywordCategories[2], job_text_lower)
    \o FraudKeywordFactor(FraudKeywordCategories[3], job_text_lower)
    \o FraudKeywordFactor(FraudKeywordCategories[4], job_text_lower)
    \o FraudKeywordFactor(FraudKeywordCategories[5], job_text_lower)
    \o FraudKeywordFactor(FraudKeywordCategories[6], job_text_lower)

\* the risk factor of one pattern, given the number of its matches
PatternFactor(matches, base_severity, before, after, confidence) ==
    IF matches = 0 THEN <<>>
    ELSE <<TextFactor(Min(100, base_severity + (matches - 1) * 10),
                      before \o " (" \o ToString(matches) \o " " \o after \o ")",
                      confidence)>>

\* _check_suspicious_patterns, in dict order
CheckTextSuspiciousPatterns(job_text) ==
    LET lower == Lower(job_text)
        Found(MatchAt(_, _), text) ==
            CountMatches([i \in 1..Len(text) |-> MatchAt(text, i)], 1)
    IN  PatternFactor(Found(ExcessiveCapsAt, job_text), 15,
                      "Excessive use of capital letters", "instances", 70)
        \o PatternFactor(Found(ExcessiveExclamationAt, job_text), 20,
                         "Multiple exclamation marks", "instances", 70)
        \o PatternFactor(Found(PhoneAt, job_text), 40,
                         "Phone numbers in job description", "found", 70)
        \o PatternFactor(Found(EmailAt, job_text), 35,
                         "Email addresses in job description", "found", 70)
        \o PatternFactor(Found(MoneyAt, job_text), 15,
                         "Specific dollar amounts mentioned", "instances", 70)
        \o PatternFactor(Found(UnrealisticSalaryAt, lower), 90,
                         "Unrealistic salary promises detected", "instances", 90)
        \o PatternFactor(Found(PoorGrammarAt, lower), 20,
                         "Potential grammar issues detected", "instances", 70)
        \o PatternFactor(Found(CurrencyAt, job_text), 30,
                         "Multiple currency symbols used", "instances", 70)
        \o PatternFactor(Found(InstantKeywordAt, lower), 45,
                         "Urgency/instant keywords detected", "instances", 70)

RequirementKeywords ==
    <<"experience", "skill", "requirement", "qualification", "must have", "should have">>

\* _check_content_quality
CheckContentQuality(job_text) ==
    LET words == WordCount(job_text)
    IN  (IF words < 20
         THEN <<TextFactor(70, "Very short job description ("
                                   \o ToString(words) \o " words)", 90)>>
         ELSE IF words > 1000
         THEN <<TextFactor(40, "Unusually long job description ("
                                   \o ToString(words) \o " words)", 60)>>
         ELSE <<>>)
        \o (IF ~ContainsAny(Lower(job_text), RequirementKeywords)
            THEN <<TextFactor(50, "No specific requirements or qualifications mentioned", 70)>>
            ELSE <<>>)

\* the sums of _calculate_confidence that binary floating point leaves just
\* below the decimal sum: 0.7 + 0.1 = 0.7999999999999999,
\* 0.7 + 0.2 = 0.8999999999999999, 0.7999999999999999 + 0.1 =
\* 0.8999999999999999 and 0.8999999999999999 + 0.1 = 0.9999999999999999
ShortSums == {<<70, 10>>, <<70, 20>>, <<79, 10>>, <<89, 10>>}

\* a + b on confidences in hundredths rounded down, where 79, 89 and 99 stand
\* for the doubles just below 0.8, 0.9 and 1.0
FloatAdd(a, b) ==
    LET exact == (IF a % 10 = 9 THEN a + 1 ELSE a) + b
    IN  IF <<a, b>> \in ShortSums THEN exact - 1 ELSE exact

\* _calculate_confidence, in hundredths rounded down
TextConfidence(job_text, risk_factor_count) ==
    LET word_count == WordCount(job_text)
        base == 70
        over50 == IF word_count > 50 THEN FloatAdd(base, 10) ELSE base
        over100 == IF word_count > 100 THEN FloatAdd(over50, 10) ELSE over50
    IN  Min(100, IF risk_factor_count > 0
                 THEN FloatAdd(over100, Min(20, risk_factor_count * 5))
                 ELSE over100)

\* analyze without the guard for an empty text: every check runs
TextAnalyzeUnguarded(job_text) ==
    LET risk_factors == CheckFraudKeywords(Lower(job_text))
                        \o CheckTextSuspiciousPatterns(job_text)
                        \o CheckContentQuality(job_text)
    IN  AnalysisResult(risk_factors, TextConfidence(job_text, Len(risk_factors)),
                       "TextAnalyzer")

\* TextAnalyzer.analyze
TextAnalyze(job_text) ==
    IF Strip(job_text) = ""
    THEN AnalysisResult(<<TextFactor(100, "Job text is empty or missing", 100)>>,
                        100, "TextAnalyzer")
    ELSE LET risk_factors == CheckFraudKeywords(Lower(job_text))
                             \o CheckTextSuspiciousPatterns(job_text)
                             \o CheckContentQuality(job_text)
         IN  AnalysisResult(risk_factors,
                            TextConfidence(job_text, Len(risk_factors)),
                            "TextAnalyzer")

(***************************************************************************)
(* PlatformAnalyzer (app/analyzers/platform_analyzer.py)                   *)
(***************************************************************************)
\* all_platforms: platform_credibility flattened
AllPlatforms ==
    ("linkedin.com" :> 95) @@ ("indeed.com" :> 90) @@ ("glassdoor.com" :> 92)
    @@ ("monster.com" :> 88) @@ ("careerbuilder.com" :> 87) @@ ("ziprecruiter.com" :> 85)
    @@ ("dice.com" :> 90) @@ ("stackoverflow.com" :> 93) @@ ("github.com" :> 92)
    @@ ("angel.co" :> 88) @@ ("wellfound.com" :> 88)
    @@ ("craigslist.org" :> 70) @@ ("facebook.com" :> 75) @@ ("twitter.com" :> 72)
    @@ ("reddit.com" :> 73) @@ ("upwork.com" :> 78) @@ ("freelancer.com" :> 76)
    @@ ("fiverr.com" :> 74) @@ ("flexjobs.com" :> 82) @@ ("remote.co" :> 80)
    @@ ("weworkremotely.com" :> 81) @@ ("remoteok.io" :> 79) @@ ("joblist.com" :> 75)
    @@ ("xing.com" :> 77) @@ ("seek.com" :> 78) @@ ("chrome" :> 85) @@ ("firefox" :> 85)
    @@ ("safari" :> 85) @@ ("edge" :> 85)
    @@ ("telegram.org" :> 55) @@ ("whatsapp.com" :> 50) @@ ("instagram.com" :> 60)
    @@ ("tiktok.com" :> 45) @@ ("snapchat.com" :> 40) @@ ("discord.com" :> 58)
    @@ ("slack.com" :> 65) @@ ("email" :> 60) @@ ("sms" :> 45) @@ ("phone" :> 55)

\* platform_risk_patterns, in dict order; severity is
\* min(100, int(40 * risk_multiplier)) for the multipliers 1.3, 1.5, 1.2, 1.1
PlatformRiskPatterns ==
    <<[platforms |-> {"facebook.com", "twitter.com", "instagram.com", "tiktok.com", "snapchat.com"},
       severity |-> 52,
       description |-> "Social media platforms have higher fraud risk"],
      [platforms |-> {"telegram.org", "whatsapp.com", "discord.com"},
       severity |-> 60,
       description |-> "Messaging apps are commonly used for scams"],
      [platforms |-> {"email", "sms", "phone"},
       severity |-> 48,
       description |-> "Direct contact methods lack platform verification"],
      [platforms |-> {"upwork.com", "freelancer.com", "fiverr.com"},
       severity |-> 44,
       description |-> "Freelance platforms may have less employer verification"]>>

\* platform_patterns, in dict order, with the name each one maps to: `whole`
\* are the ^...$ alternatives, `parts` the ones searched anywhere
PlatformPatterns ==
    <<[name |-> "linkedin.com", whole |-> {}, parts |-> <<"linkedin.com", "linkedin">>],
      [name |-> "indeed.com", whole |-> {}, parts |-> <<"indeed.com", "indeed">>],
      [name |-> "glassdoor.com", whole |-> {}, parts |-> <<"glassdoor.com", "glassdoor">>],
      [name |-> "monster.com", whole |-> {}, parts |-> <<"monster.com", "monster">>],
      [name |-> "craigslist.org", whole |-> {}, parts |-> <<"craigslist.org", "craigslist">>],
      [name |-> "facebook.com", whole |-> {}, parts |-> <<"facebook.com", "facebook", "fb.com">>],
      [name |-> "twitter.com", whole |-> {}, parts |-> <<"twitter.com", "twitter", "x.com">>],
      [name |-> "telegram.org", whole |-> {}, parts |-> <<"telegram.org", "telegram", "t.me">>],
      [name |-> "whatsapp.com", whole |-> {}, parts |-> <<"whatsapp.com", "whatsapp">>],
      [name |-> "email", whole |-> {"email", "e-mail"}, parts |-> <<"email contact", "direct email">>],
      [name |-> "sms", whole |-> {"sms", "text"}, parts |-> <<"text message", "phone text">>],
      [name |-> "phone", whole |-> {"phone"}, parts |-> <<"phone call", "telephone", "direct call">>],
      [name |-> "chrome", whole |-> {"chrome"}, parts |-> <<"chrome extension", "browser extension">>],
      [name |-> "firefox", whole |-> {"firefox"}, parts |-> <<"firefox extension">>],
      [name |-> "safari", whole |-> {"safari"}, parts |-> <<"safari extension">>],
      [name |-> "edge", whole |-> {"edge"}, parts |-> <<"edge extension">>]>>

\* pattern.search(platform) under IGNORECASE
PlatformPatternFound(pattern, platform) ==
    Lower(platform) \in pattern.whole \/ ContainsAny(Lower(platform), pattern.parts)

\* group 1 of re.search(r'(?:https?://)?(?:www\.)?([^/\s]+)', platform), as a
\* list of at most one string: the search starts at the first character that
\* is neither a slash nor a space, the optional prefixes are taken when
\* something is left for the group after them
ExtractedDomain(platform) ==
    LET start == RunLength(platform, "/ ", 1) + 1
        scheme == SchemeAt(platform, start)
        GroupAt(g) == SubSeq(platform, g, FirstOf(From(platform, g), "/ ") + g - 2)
        www(g) == IF OccursAt(platform, "www.", g) THEN 4 ELSE 0
        starts == <<start + scheme + www(start + scheme), start + scheme,
                    start + www(start), start>>
        usable == {k \in 1..4 : Len(GroupAt(starts[k])) >= 1}
    IN  IF start > Len(platform) THEN <<>>
        ELSE <<GroupAt(starts[CHOOSE k \in usable : \A j \in usable : k <= j])>>

\* _normalize_platform_name
NormalizePlatformName(platform) ==
    LET extracted == IF Contains(platform, ".")
                        /\ (Contains(platform, "http") \/ Contains(platform, "www"))
                     THEN ExtractedDomain(platform) ELSE <<>>
        found == {k \in 1..Len(PlatformPatterns) :
                     PlatformPatternFound(PlatformPatterns[k], platform)}
    IN  IF platform \in DOMAIN AllPlatforms THEN platform
        ELSE IF extracted # <<>> /\ Lower(extracted[1]) \in DOMAIN AllPlatforms
        THEN Lower(extracted[1])
        ELSE IF found # {}
        THEN PlatformPatterns[CHOOSE k \in found : \A j \in found : k <= j].name
        ELSE Lower(platform)

\* a platform finding tagged with the catch-all category
PlatformFactorTaggedGeneral(severity, description, confidence) ==
    RiskFactor(GENERAL, severity, description, confidence)

PlatformFactor(severity, description, confidence) ==
    RiskFactor(PLATFORM_CREDIBILITY, severity, description, confidence)

\* _get_platform_credibility: the risk factors appended
GetPlatformCredibility(normalized_platform) ==
    IF normalized_platform \notin DOMAIN AllPlatforms
    THEN <<PlatformFactor(60, "Platform is not recognized or well-known", 70)>>
    ELSE IF AllPlatforms[normalized_platform] < 50
    THEN <<PlatformFactor(80, "Platform is known for high fraud rates", 90)>>
    ELSE IF AllPlatforms[normalized_platform] < 70
    THEN <<PlatformFactor(50, "Platform has lower credibility rating", 80)>>
    ELSE IF AllPlatforms[normalized_platform] < 85
    THEN <<PlatformFactor(25, "Platform has moderate credibility rating", 60)>>
    ELSE <<>>

\* _check_platform_risk_patterns
CheckPlatformRiskPatterns(normalized_platform) ==
    LET RiskOf(k) ==
            IF normalized_platform \in PlatformRiskPatterns[k].platforms
            THEN <<PlatformFactor(PlatformRiskPatterns[k].severity,
                                  PlatformRiskPatterns[k].description, 80)>>
            ELSE <<>>
    IN  RiskOf(1) \o RiskOf(2) \o RiskOf(3) \o RiskOf(4)

VaguePatterns == <<"website", "online", "internet", "web", "site">>

\* _check_suspicious_indicators
CheckSuspiciousIndicators(normalized_platform, original_platform) ==
    (IF normalized_platform \in {"telegram", "whatsapp", "discord", "sms"}
     THEN <<PlatformFactor(70, "Contact only through messaging apps (red flag)", 80)>>
     ELSE <<>>)
    \o (IF normalized_platform \in {"facebook", "twitter", "instagram", "tiktok", "snapchat"}
        THEN <<PlatformFactor(65, "Job posting only on social media platforms", 70)>>
        ELSE <<>>)
    \o (IF normalized_platform \in {"email", "sms", "phone", "craigslist"}
        THEN <<PlatformFactor(55, "Platform lacks employer verification processes", 60)>>
        ELSE <<>>)
    \o (IF /\ ContainsAny(Lower(original_platform), VaguePatterns)
           /\ WordCount(original_platform) <= 2
        THEN <<PlatformFactor(45, "Platform description is vague or non-specific", 60)>>
        ELSE <<>>)

\* _apply_platform_risk_adjustments, given the risk factors found so far
ApplyPlatformRiskAdjustments(normalized_platform, risk_factors) ==
    IF /\ normalized_platform \in {"telegram", "whatsapp", "tiktok", "snapchat"}
       /\ ~\E k \in 1..Len(risk_factors) :
              /\ risk_factors[k].severity >= 70
              /\ Contains(Lower(risk_factors[k].description), "high fraud")
    THEN <<PlatformFactor(75, "Platform is associated with higher fraud rates", 80)>>
    ELSE <<>>

\* _calculate_confidence, in hundredths
PlatformConfidence(normalized_platform, risk_factor_count) ==
    Min(100, 80
             + (IF normalized_platform \in DOMAIN AllPlatforms THEN 10 ELSE 0)
             + (IF risk_factor_count > 0 THEN Min(10, risk_factor_count * 2) ELSE 0)
             + (IF \E k \in 1..Len(PlatformPatterns) :
                       PlatformPatternFound(PlatformPatterns[k], normalized_platform)
                THEN 5 ELSE 0))

\* PlatformAnalyzer.analyze
PlatformAnalyze(platform_source) ==
    IF Strip(platform_source) = ""
    THEN AnalysisResult(<<PlatformFactor(100, "Platform source is empty or missing", 100)>>,
                        100, "PlatformAnalyzer")
    ELSE LET platform == Lower(Strip(platform_source))
             normalized_platform == NormalizePlatformName(platform)
             found == GetPlatformCredibility(normalized_platform)
                      \o CheckPlatformRiskPatterns(normalized_platform)
                      \o CheckSuspiciousIndicators(normalized_platform, platform)
             risk_factors == found \o ApplyPlatformRiskAdjustments(normalized_platform, found)
         IN  AnalysisResult(risk_factors,
                            PlatformConfidence(normalized_platform, Len(risk_factors)),
                            "PlatformAnalyzer")

(***************************************************************************)
(* analyze_job_posting from the request on                                 *)
(***************************************************************************)
\* an optional field handed on as text: str(None) for a missing one
GivenAsText(optional) == IF optional = None THEN "None" ELSE optional[1]

\* the argument an analyzer receives for an optional field: None and the
\* empty string take the same branch of `if not value or not value.strip()`
Given(optional) == IF optional = None THEN "" ELSE optional[1]

\* _run_all_analyzers with analyzers that append to the finding lists of the
\* previous call instead of starting from fresh ones
RunAllAnalyzersOnSharedLists(req) ==
    LET url == UrlAnalyze(Given(req.company_url))
        Shared(key, result) ==
            IF analysis_results = <<>> THEN result
            ELSE [result EXCEPT !.risk_factors = analysis_results[key].risk_factors \o @]
    IN  IF Failed(url) THEN url
        ELSE [text |-> Shared("text", TextAnalyze(req.job_text)),
              email |-> Shared("email", EmailAnalyze(Given(req.recruiter_email))),
              url |-> Shared("url", url),
              platform |-> Shared("platform", PlatformAnalyze(req.platform_source))]

\* _run_all_analyzers: the dict of results, or the exception of an analyzer
RunAllAnalyzers(req) ==
    LET url == UrlAnalyze(Given(req.company_url))
    IN  IF Failed(url) THEN url
        ELSE [text |-> TextAnalyze(req.job_text),
              email |-> EmailAnalyze(Given(req.recruiter_email)),
              url |-> url,
              platform |-> PlatformAnalyze(req.platform_source)]

\* the outcome of the scoring together with the analyzer results it used
WithResults(results, scored) ==
    IF Failed(scored) THEN scored
    ELSE [analysis_results |-> results,
          scoring |-> scored.scoring,
          response |-> scored.response]

\* lines 49-67 after _run_all_analyzers returned results or raised
OutcomeOf(weights, thresholds, results, req) ==
    IF Failed(results) THEN results
    ELSE WithResults(results, OutcomeWith(weights, thresholds, results, req))

\* analyze_job_posting for the request: the locals of the scoring with the
\* response and the analyzer results, or the exception raised
Outcome(weights, thresholds, req) ==
    OutcomeOf(weights, thresholds, RunAllAnalyzers(req), req)

\* the entry of `served` for the request just handled
Served(req, outcome) ==
    [request |-> req,
     exception |-> IF Failed(outcome) THEN outcome.exception ELSE None,
     response |-> IF Failed(outcome) THEN <<>> ELSE outcome.response]

\* the call returns the response of the outcome, or raises its exception, and
\* is recorded
ReturnAnalyzed(outcome) ==
    /\ IF Failed(outcome)
       THEN /\ analysis_results' = <<>>
            /\ scoring' = <<>>
            /\ response' = <<>>
            /\ exception' = outcome.exception
            /\ pc' = "raised"
       ELSE /\ analysis_results' = outcome.analysis_results
            /\ scoring' = outcome.scoring
            /\ response' = outcome.response
            /\ exception' = None
            /\ pc' = "response"
    /\ served' = Append(served, Served(request, outcome))

\* analyze_job_posting(request), whole
AnalyzeRequest ==
    /\ pc = "received"
    /\ ReturnAnalyzed(Outcome(category_weights, verdict_thresholds, request))
    /\ UNCHANGED <<category_weights, verdict_thresholds, request, call, returned,
                   clock, limiter, collector, http, forwarded>>

\* the service after __init__, called with one of the requests
InitReceived(requests) ==
    /\ category_weights = InitialCategoryWeights
    /\ verdict_thresholds = InitialVerdictThresholds
    /\ pc = "received"
    /\ request \in requests
    /\ analysis_results = <<>>
    /\ scoring = <<>>
    /\ response = <<>>
    /\ exception = None
    /\ call = <<>>
    /\ returned = <<>>
    /\ served = <<>>
    /\ NoBoundary

\* analyzer.analyze(argument) for the analyzer of the method called
AnalyzeBy(method, argument) ==
    CASE method = "TextAnalyzer.analyze" -> TextAnalyze(argument)
      [] method = "EmailAnalyzer.analyze" -> EmailAnalyze(argument)
      [] method = "URLAnalyzer.analyze" -> UrlAnalyze(argument)
      [] OTHER -> PlatformAnalyze(argument)

\* the call returns the result, or raises the exception
ReturnCalled(result) ==
    /\ returned' = result
    /\ exception' = IF Failed(result) THEN result.exception ELSE None
    /\ pc' = IF Failed(result) THEN "raised" ELSE "return"

\* analyzer.analyze(argument), called on its own with None or a string: the
\* result or the exception
CallAnalyze ==
    /\ pc = "call"
    /\ call.method \in {"TextAnalyzer.analyze", "EmailAnalyzer.analyze",
                        "URLAnalyzer.analyze", "PlatformAnalyzer.analyze"}
    /\ ReturnCalled(AnalyzeBy(call.method, Given(call.argument)))
    /\ UNCHANGED <<category_weights, verdict_thresholds, request, analysis_results,
                   scoring, response, call, served,
                   clock, limiter, collector, http, forwarded>>

(***************************************************************************)
(* SpecService: the module-level service instance handles several requests *)
(* one after the other                                                     *)
(***************************************************************************)
MaxRequests == 3

\* a posting that draws no finding from the text
StructuredText ==
    "We are hiring a senior software engineer. Requirements: five years of "
    \o "experience with Python and SQL. Responsibilities: design and build "
    \o "services. Benefits: health insurance and paid time off for all staff."

\* a posting with headers, professional terms and skills, no text finding
ProfessionalText ==
    StructuredText
    \o " Bachelor's degree, team player, competitive salary, career growth."
    \o " Skills: Python, Java, SQL, AWS, Docker. We value curiosity and kindness."

ScamText == "URGENT!!! Send your SSN and a processing fee via WhatsApp NOW"

ServiceRequests ==
    {JobAnalysisRequest(StructuredText, None, None, "LinkedIn"),
     JobAnalysisRequest(ScamText, Some("https://bit.ly/apply"),
                        Some("12345@mailinator.com"), "telegram"),
     JobAnalysisRequest("Software engineer needed", Some("https://example.com:99999"),
                        None, "LinkedIn"),
     JobAnalysisRequest("Software engineer needed", Some("  "),
                        Some("HR@Example.com"), "company website")}

\* the service after __init__, before its first request
InitService ==
    /\ category_weights = InitialCategoryWeights
    /\ verdict_thresholds = InitialVerdictThresholds
    /\ pc = "idle"
    /\ request = <<>>
    /\ analysis_results = <<>>
    /\ scoring = <<>>
    /\ response = <<>>
    /\ exception = None
    /\ call = <<>>
    /\ returned = <<>>
    /\ served = <<>>
    /\ NoBoundary

\* the controller passes the next request to the shared instance; until the
\* call returns the state shows the values of the previous call
ReceiveRequest ==
    /\ pc \in {"idle", "response", "raised"}
    /\ Len(served) < MaxRequests
    /\ request' \in ServiceRequests
    /\ pc' = "received"
    /\ UNCHANGED <<category_weights, verdict_thresholds, analysis_results, scoring,
                   response, exception, call, returned, served,
                   clock, limiter, collector, http, forwarded>>

NextService == ReceiveRequest \/ AnalyzeRequest

SpecService == InitService /\ [][NextService]_vars

\* the fields of the response the claim compares
ResponseFields(resp) ==
    <<resp.risk_score, resp.flags, resp.explanation, resp.verdict, resp.confidence>>

BlankArguments == {None, Some(""), Some("   ")}

TextArguments ==
    BlankArguments
    \cup {Some(StructuredText), Some(ScamText), Some("Software engineer needed"),
          Some("Earn $5000/week working from home!! No experience required. "
               \o "Contact jobs@quick-cash.biz today or call 555.123.4567 asap"),
          Some("AAAAA BBBB CCCCCCCCCC DDDDDa !! ! !!!! today-only instant_x immediate"),
          Some("their work is there and they're here. THERE is no experience"),
          Some("data entry and various duties; wire transfer of processing fee"),
          Some(Repeat("skill ", 50))}

EmailArguments ==
    BlankArguments
    \cup {Some("hr@example.com"), Some("12345@mailinator.com"),
          Some("moneyquick@gmail.com"), Some("a@b"), Some("hr@tempmail.org"),
          Some("abcdefghijklmnopqrstuvwxyz@x.tk"), Some("x@gmai1.com"),
          Some("a@abcdefghijklmno.com"), Some("xxx123456@yahoo.com"),
          Some(" Urgent.Hire@GMAIL.com "), Some("a@@b.com"), Some("a@..com"),
          Some("x@fakeinbox.com"), Some("x@my-throw.download"),
          Some("cash4u@outlook.com"), Some("a b@c.com")}

UrlArguments ==
    BlankArguments
    \cup {Some("https://example.com"), Some("https://example.com:99999"),
          Some("https://example.com:65535"), Some("https://example.com:65536"),
          Some("https://example.com:8080"), Some("http://acme-corp.com:3000/jobs"),
          Some("https://www.linkedin.com/jobs/view/123"),
          Some("HTTPS://192.168.1.1/login"), Some("https://bit.ly/abc"),
          Some("https://a.b.c.d.e.com/x"), Some("https://free-jobs.tk/apply"),
          Some("https://abcdefghijklmnop.com"), Some("https://abcdefgh12.tk"),
          Some("https://gooogle.com/careers"), Some("ftp://example.com"),
          Some("https://example"), Some("https://localhost:5000/"),
          Some("https://a.com:x"), Some("example.com"),
          Some("https://acme.org:00000000080"), Some("https://acme.org:4294967296")}

PlatformArguments ==
    BlankArguments
    \cup {Some("LinkedIn"), Some("telegram"), Some("https://www.linkedin.com/jobs/123"),
          Some("www.github.com"), Some("https://"), Some("WhatsApp"),
          Some("discord.com"), Some("tiktok"), Some("sms"), Some("E-Mail"),
          Some("direct email from recruiter"), Some("telephone call"),
          Some("company website"), Some("online"), Some("craigslist.org"),
          Some("fb.com/jobs"), Some("linux.com"), Some("upwork.com"),
          Some("Chrome Extension"), Some("Unknown board"), Some("http://t.me/scam")}

AnalyzeCalls ==
    {[method |-> "TextAnalyzer.analyze", argument |-> a] : a \in TextArguments}
    \cup {[method |-> "EmailAnalyzer.analyze", argument |-> a] : a \in EmailArguments}
    \cup {[method |-> "URLAnalyzer.analyze", argument |-> a] : a \in UrlArguments}
    \cup {[method |-> "PlatformAnalyzer.analyze", argument |-> a] : a \in PlatformArguments}

\* requests as the validators of JobAnalysisRequest hand them on.  The score is
\* computed in exact fractions, which round as the doubles of the code do
\* unless adjusted_score is exactly halfway between two integers; the requests
\* are chosen off such ties.
PipelineRequests ==
    {JobAnalysisRequest(text, url, email, platform) :
        text \in {StructuredText, ProfessionalText, ScamText, "Software engineer needed",
                  "Earn $5000/week from home!! No experience required, wire transfer."},
        url \in {None, Some("  "), Some("https://example.com"),
                 Some("https://bit.ly/apply"), Some("https://example.com:99999"),
                 Some("https://acme-corp.com/jobs")},
        email \in {None, Some(""), Some("hr@example.com"), Some("12345@mailinator.com")},
        platform \in {"LinkedIn", "telegram", "company website"}}

InitAnalyzers == InitCall(AnalyzeCalls) \/ InitReceived(PipelineRequests)

NextAnalyzers == CallAnalyze \/ AnalyzeRequest

SpecAnalyzers == InitAnalyzers /\ [][NextAnalyzers]_vars

\* the response analyze_job_posting builds from the results of the categories
\* other than `key`
WithoutCategory(key) ==
    OutcomeWith(category_weights, verdict_thresholds,
                Without(analysis_results, {key}), request).response

MissingRequiredInputIsOneFinding ==
    ( /\ pc \in {"return", "raised"}
      /\ served = <<>>
      /\ call.method \in {"TextAnalyzer.analyze", "PlatformAnalyzer.analyze"}
      /\ call.argument \in BlankArguments )
    => /\ pc = "return"
       /\ Len(returned.risk_factors) = 1
       /\ returned.risk_factors[1].severity = 100
       /\ returned.risk_factors[1].confidence = 100
       /\ returned.risk_factors[1].description
             = (IF call.method = "TextAnalyzer.analyze"
                THEN "Job text is empty or missing"
                ELSE "Platform source is empty or missing")
       /\ returned.confidence = 100

WhitespaceTextAnalyzed ==
    /\ pc = "return"
    /\ call = [method |-> "TextAnalyzer.analyze", argument |-> Some("   ")]
    /\ Len(returned.risk_factors) = 1
    /\ returned.risk_factors[1].category = TEXT_ANALYSIS

\* the category each analyzer gives its findings, by analyzer and by result key
AnalyzerCategory ==
    [text |-> TEXT_ANALYSIS, email |-> EMAIL_VALIDATION, url |-> URL_VALIDATION,
     platform |-> PLATFORM_CREDIBILITY]

MethodKey ==
    ("TextAnalyzer.analyze" :> "text") @@ ("EmailAnalyzer.analyze" :> "email")
    @@ ("URLAnalyzer.analyze" :> "url") @@ ("PlatformAnalyzer.analyze" :> "platform")

\* C15: every finding an analyzer returns has the analyzer's own category, a
\* severity in 0..100 and a confidence in 0..1; in the results of a request the
\* findings of the pool with a category's tag are the findings of the analyzer
\* of that category.
FindingsCarryOwnCategory ==
    /\ (pc = "return" /\ served = <<>> /\ call.method \in DOMAIN MethodKey)
       => \A i \in 1..Len(returned.risk_factors) :
             /\ returned.risk_factors[i].category
                   = AnalyzerCategory[MethodKey[call.method]]
             /\ returned.risk_factors[i].severity \in 0..100
             /\ returned.risk_factors[i].confidence \in 0..100
    /\ pc = "response"
       => \A key \in DOMAIN analysis_results :
             /\ OfCategory(AllRiskFactors(analysis_results), AnalyzerCategory[key])
                   = analysis_results[key].risk_factors
             /\ \A i \in 1..Len(analysis_results[key].risk_factors) :
                   ValidRiskFactor(analysis_results[key].risk_factors[i])

FindingsInEveryCategory ==
    /\ pc = "response"
    /\ DOMAIN analysis_results = DOMAIN AnalyzerCategory
    /\ \A key \in DOMAIN analysis_results : Len(analysis_results[key].risk_factors) > 1

\* a request as the validators hand it on: the field constraints, and the
\* patterns of validate_company_url and validate_recruiter_email, which accept
\* what url_pattern and email_pattern of the analyzers accept
ValidatedRequest(req) ==
    /\ ValidRequest(req.job_text, req.company_url, req.recruiter_email,
                    req.platform_source)
    /\ req.company_url # None => UrlPattern(req.company_url[1])
    /\ req.recruiter_email # None => EmailPattern(req.recruiter_email[1])

\* C16: no analyzer raises on input the request validation accepts: each call
\* of URLAnalyzer.analyze or EmailAnalyzer.analyze on such a URL or email
\* returns a result, and analyze_job_posting on a validated request returns a
\* response.
AnalyzersNeverRaiseOnValidatedInput ==
    /\ ( /\ pc \in {"return", "raised"}
         /\ served = <<>>
         /\ call.argument # None
         /\ \/ /\ call.method = "URLAnalyzer.analyze"
               /\ UrlPattern(Strip(call.argument[1]))
            \/ /\ call.method = "EmailAnalyzer.analyze"
               /\ EmailPattern(Lower(Strip(call.argument[1]))) )
       => pc = "return"
    /\ (pc \in {"response", "raised"} /\ served # <<>> /\ ValidatedRequest(request))
       => pc = "response"

\* analyze_job_posting for the current request with another platform_source
OutcomeOn(platform_source) ==
    Outcome(category_weights, verdict_thresholds,
            [request EXCEPT !.platform_source = platform_source])

\* C17: the risk_score of a response to a request with platform_source
\* 'telegram' is at least the risk_score the service gives the same request
\* with platform_source 'LinkedIn'.
TelegramScoresAtLeastLinkedIn ==
    (pc = "response" /\ request.platform_source = "telegram")
    => /\ ~Failed(OutcomeOn("LinkedIn"))
       /\ response.risk_score >= OutcomeOn("LinkedIn").response.risk_score

TelegramPullsBlendDown ==
    /\ pc = "response"
    /\ request.platform_source = "telegram"
    /\ ~Failed(OutcomeOn("LinkedIn"))
    /\ RLt(scoring.base_score, OutcomeOn("LinkedIn").scoring.base_score)
    /\ scoring.professional_bonus = 25
    /\ response.risk_score = OutcomeOn("LinkedIn").response.risk_score + 1

\* C18: a response to a posting whose text draws no text finding and has the
\* sections 'Requirements:', 'Responsibilities:' and 'Benefits:', sent with
\* company_url 'https://example.com', recruiter_email 'hr@example.com' and
\* platform_source 'LinkedIn', has risk_score <= 40 and verdict Safe or Caution.
LegitimatePostingScoresLow ==
    ( /\ pc = "response"
      /\ analysis_results["text"].risk_factors = <<>>
      /\ \A section \in {"Requirements:", "Responsibilities:", "Benefits:"} :
            Contains(request.job_text, section)
      /\ request.company_url = Some("https://example.com")
      /\ request.recruiter_email = Some("hr@example.com")
      /\ request.platform_source = "LinkedIn" )
    => /\ response.risk_score <= 40
       /\ response.verdict \in {SAFE, CAUTION}

\* the sentence an explanation opens with, up to the score, and the sentence it
\* closes with, by verdict
ExplanationFrame ==
    (SAFE :> [opening |-> "This job posting appears legitimate with a low risk score of ",
              closing |-> "The job posting meets standard legitimacy criteria, "
                          \o "but always verify details independently."])
    @@ (CAUTION :> [opening |-> "This job posting shows some concerning signs "
                                \o "with a moderate risk score of ",
                    closing |-> "Exercise caution and verify company details "
                                \o "before proceeding with any application."])
    @@ (HIGH_RISK :> [opening |-> "This job posting has significant red flags "
                                  \o "with a high risk score of ",
                      closing |-> "Strong recommendation to avoid this opportunity "
                                  \o "and report if encountered on job platforms."])

\* C19: the explanation of every response is non-empty, starts with the opening
\* sentence of the response's verdict, carrying the risk_score in decimal and
\* the confidence label in lower case, and ends with the recommendation of the
\* same verdict.
ExplanationFramedByVerdict ==
    pc = "response"
    => /\ Len(response.explanation) > 0
       /\ StartsWith(response.explanation,
                     ExplanationFrame[response.verdict].opening
                     \o ToString(response.risk_score)
                     \o " (" \o Lower(response.confidence) \o " confidence).")
       /\ EndsWith(response.explanation, ExplanationFrame[response.verdict].closing)
       /\ \A verdict \in VerdictEnum \ {response.verdict} :
             /\ ~StartsWith(response.explanation, ExplanationFrame[verdict].opening)
             /\ ~EndsWith(response.explanation, ExplanationFrame[verdict].closing)

HighConfidenceHighRiskExplained ==
    /\ pc = "response"
    /\ served # <<>>
    /\ response.verdict = HIGH_RISK
    /\ response.risk_score < 100
    /\ response.confidence = "High"
    /\ Contains(response.explanation, "Key concerns include: ")
    /\ Contains(response.explanation, "Specifically, ")

(***************************************************************************)
(* The category weights as Python floats                                   *)
(***************************************************************************)
\* significant bits of a Python float (IEEE 754 binary64)
Precision == 53

\* binary places kept behind the point: enough for a float of 2^-5 and above
\* with its rounding bits
FractionBits == Precision + 11

\* A value below 2 in binary: bits[1] counts 1 and bits[i] counts 2^(1-i).
RECURSIVE BinaryDigits(_, _, _)
\* the first `count` binary digits of n/d, for n < 2d
BinaryDigits(n, d, count) ==
    IF count = 0 THEN <<>>
    ELSE <<n \div d>> \o BinaryDigits(2 * (n % d), d, count - 1)

RECURSIVE RestAfter(_, _, _)
\* what of n/d lies beyond its first `count` binary digits (0 when nothing)
RestAfter(n, d, count) ==
    IF count = 0 THEN n ELSE RestAfter(2 * (n % d), d, count - 1)

RECURSIVE AddFrom(_, _, _, _)
\* places 1..i of a + b, the carry coming from the places behind i
AddFrom(a, b, i, carry) ==
    IF i = 0 THEN <<>>
    ELSE AddFrom(a, b, i - 1, (a[i] + b[i] + carry) \div 2)
         \o <<(a[i] + b[i] + carry) % 2>>

FixedAdd(a, b) == AddFrom(a, b, Len(a), 0)

\* round to nearest, ties to even, at Precision significant bits; `inexact`
\* tells that the value has more behind the places of bits
RoundToDouble(bits, inexact) ==
    IF \A i \in 1..Len(bits) : bits[i] = 0 THEN bits
    ELSE LET first == CHOOSE i \in 1..Len(bits) :
                          bits[i] = 1 /\ \A j \in 1..(i - 1) : bits[j] = 0
             last == first + Precision - 1
             kept == [i \in 1..Len(bits) |-> IF i <= last THEN bits[i] ELSE 0]
             below == inexact \/ \E i \in (last + 2)..Len(bits) : bits[i] = 1
             up == bits[last + 1] = 1 /\ (below \/ bits[last] = 1)
             ulp == [i \in 1..Len(bits) |-> IF i = last THEN 1 ELSE 0]
         IN  IF up THEN FixedAdd(kept, ulp) ELSE kept

\* the float of the decimal literal n/d
DoubleOf(n, d) ==
    RoundToDouble(BinaryDigits(n, d, 1 + FractionBits),
                  RestAfter(n, d, 1 + FractionBits) # 0)

\* float + float
DoubleAdd(a, b) == RoundToDouble(FixedAdd(a, b), FALSE)

RECURSIVE SumOfWeightsFrom(_, _, _)
SumOfWeightsFrom(weights, i, total) ==
    IF i > Len(WeightOrder) THEN total
    ELSE SumOfWeightsFrom(weights, i + 1,
             IF WeightOrder[i] \in DOMAIN weights
             THEN DoubleAdd(total, DoubleOf(weights[WeightOrder[i]][1],
                                            weights[WeightOrder[i]][2]))
             ELSE total)

\* the weights added up as floats in the order of category_weights.items(),
\* as lines 157-162 add them to total_weight when every confidence is 1.0
SumOfWeights(weights) == SumOfWeightsFrom(weights, 1, DoubleOf(0, 1))

\* C20: the service has the four weights 0.70, 0.12, 0.10 and 0.08, which sum
\* to exactly 1.0, and no operation changes the weights or the verdict
\* thresholds set at construction.
WeightsSumToOneAndStayFixed ==
    /\ DOMAIN category_weights
          = {TEXT_ANALYSIS, EMAIL_VALIDATION, URL_VALIDATION, PLATFORM_CREDIBILITY}
    /\ category_weights[TEXT_ANALYSIS] = Rat(70, 100)
    /\ category_weights[EMAIL_VALIDATION] = Rat(12, 100)
    /\ category_weights[URL_VALIDATION] = Rat(10, 100)
    /\ category_weights[PLATFORM_CREDIBILITY] = Rat(8, 100)
    /\ SumOfWeights(category_weights) = DoubleOf(1, 1)
    /\ verdict_thresholds = InitialVerdictThresholds

(***************************************************************************)
(* The HTTP boundary: POST /api/v1/analyze-job (app/controllers/           *)
(* job_analysis.py, app/models/request.py, app/middleware/                 *)
(* error_handlers.py)                                                      *)
(***************************************************************************)
\* a value of the parsed JSON body: a string or null
JsonString(str) == [json |-> "string", value |-> str]

JsonNull == [json |-> "null", value |-> ""]

\* the body {}: the JSON object without members
EmptyObject == <<>>

\* Field(..., min_length, max_length) with its validator that rejects blank
\* text: what rejects the member `field` of the body, "" when nothing does.
\* The length constraints of Field are checked on the value as sent, the
\* validator runs on the value that passed them.
RequiredFieldError(body, field, min_length, max_length) ==
    IF field \notin DOMAIN body THEN "required"
    ELSE IF body[field].json # "string" THEN "str"
    ELSE IF Len(body[field].value) < min_length THEN "min_length"
    ELSE IF Len(body[field].value) > max_length THEN "max_length"
    ELSE IF Len(Strip(body[field].value)) = 0 THEN "validator"
    ELSE ""

\* the member `field` of the body as Optional[str]: absent and null are None
OptionalField(body, field) ==
    IF field \in DOMAIN body /\ body[field].json = "string"
    THEN Some(body[field].value) ELSE None

\* validate_company_url after Field(None, max_length=500)
CompanyUrlError(body) ==
    LET v == OptionalField(body, "company_url")
    IN  IF v = None THEN ""
        ELSE IF Len(v[1]) > 500 THEN "max_length"
        ELSE IF Len(Strip(v[1])) = 0 THEN ""
        ELSE IF ~UrlPattern(Strip(v[1])) THEN "validator"
        ELSE ""

\* validate_recruiter_email after Field(None, max_length=254)
RecruiterEmailError(body) ==
    LET v == OptionalField(body, "recruiter_email")
    IN  IF v = None THEN ""
        ELSE IF Len(v[1]) > 254 THEN "max_length"
        ELSE IF Len(Strip(v[1])) = 0 THEN ""
        ELSE IF ~EmailPattern(Lower(Strip(v[1]))) THEN "validator"
        ELSE ""

\* one entry of RequestValidationError.errors(): the location and what
\* rejected the value
FieldError(field, rejected_by) ==
    IF rejected_by = "" THEN <<>>
    ELSE <<[loc |-> <<"body", field>>, rejected_by |-> rejected_by]>>

\* the errors of JobAnalysisRequest for the body, in the order of the fields
ValidationErrors(body) ==
    FieldError("job_text", RequiredFieldError(body, "job_text", 10, 10000))
    \o FieldError("company_url", CompanyUrlError(body))
    \o FieldError("recruiter_email", RecruiterEmailError(body))
    \o FieldError("platform_source", RequiredFieldError(body, "platform_source", 1, 100))

\* the JobAnalysisRequest built from a body without errors
RequestOf(body) ==
    JobAnalysisRequest(body["job_text"].value,
                       OptionalField(body, "company_url"),
                       OptionalField(body, "recruiter_email"),
                       body["platform_source"].value)

\* JSONResponse(status_code, content)
JSONResponse(status_code, content) == [status_code |-> status_code, content |-> content]

\* validation_exception_handler
ValidationExceptionHandler(errors) ==
    JSONResponse(422,
        [detail |-> "Validation error in request data",
         errors |-> [i \in 1..Len(errors) |->
                        [field |-> Join(errors[i].loc, " -> "),
                         rejected_by |-> errors[i].rejected_by]]])

\* str(exc) of the exceptions the service raises
StrOfException(exc) ==
    IF exc = ValueError THEN "Port out of range 0-65535"
    ELSE IF exc = ZeroDivisionError THEN "float division by zero"
    ELSE exc[1]

\* a handler that reports what went wrong
GeneralExceptionHandlerLeaking(exc) ==
    JSONResponse(500, [detail |-> "An internal error occurred: " \o StrOfException(exc),
                       status_code |-> 500])

\* general_exception_handler
GeneralExceptionHandler(exc) ==
    JSONResponse(500, [detail |-> "An internal error occurred while processing the request",
                       status_code |-> 500])

\* the response to the client for what the endpoint returned or raised
AnswerTo(outcome) ==
    IF Failed(outcome) THEN GeneralExceptionHandler(outcome.exception)
    ELSE JSONResponse(200, outcome.response)

\* the endpoint analyze_job_posting(request): the shared service analyses the
\* request; its response is returned, its exception re-raised to the handler
\* registered for Exception
Endpoint(req, outcome) ==
    /\ request' = req
    /\ IF Failed(outcome)
       THEN /\ analysis_results' = <<>>
            /\ scoring' = <<>>
            /\ response' = <<>>
            /\ exception' = outcome.exception
            /\ pc' = "raised"
       ELSE /\ analysis_results' = outcome.analysis_results
            /\ scoring' = outcome.scoring
            /\ response' = outcome.response
            /\ exception' = None
            /\ pc' = "response"
    /\ served' = Append(served, Served(req, outcome))
    /\ http' = [http EXCEPT !.response = AnswerTo(outcome)]

\* FastAPI answers a body with errors itself and does not call the endpoint
Reject(errors) ==
    /\ pc' = "rejected"
    /\ http' = [http EXCEPT !.response = ValidationExceptionHandler(errors)]
    /\ UNCHANGED <<request, analysis_results, scoring, response, exception, served>>

\* a POST /api/v1/analyze-job with a JSON body arrives
ReceivePost(bodies) ==
    /\ pc = "idle"
    /\ \E body \in bodies : http' = [body |-> body, response |-> <<>>]
    /\ pc' = "posted"
    /\ UNCHANGED <<category_weights, verdict_thresholds, request, analysis_results,
                   scoring, response, exception, call, returned, served,
                   clock, limiter, collector, forwarded>>

\* the application handles it: validation of the body, then the endpoint
HandlePost ==
    /\ pc = "posted"
    /\ IF ValidationErrors(http.body) # <<>>
       THEN Reject(ValidationErrors(http.body))
       ELSE Endpoint(RequestOf(http.body),
                     Outcome(category_weights, verdict_thresholds, RequestOf(http.body)))
    /\ UNCHANGED <<category_weights, verdict_thresholds, call, returned,
                   clock, limiter, collector, forwarded>>

\* members of a body: the member is left out, or has one of the values
Members(field, values) == {<<>>} \cup {field :> v : v \in values}

\* the bodies posted: every field absent, null, blank, at and beyond its
\* length limits, accepted and rejected by its validator
PostBodies ==
    {text @@ url @@ email @@ platform :
        text \in Members("job_text",
                    {JsonNull, JsonString(""), JsonString("Too short"),
                     JsonString("          "), JsonString("Hiring    "),
                     JsonString("Software engineer needed"),
                     JsonString("  " \o ScamText \o "  "),
                     JsonString(Repeat("a", 10001))}),
        url \in Members("company_url",
                    {JsonNull, JsonString("  "), JsonString("https://example.com"),
                     JsonString(" https://example.com:99999 "),
                     JsonString("example.com"),
                     JsonString("https://example.com/" \o Repeat("a", 481))}),
        email \in Members("recruiter_email",
                    {JsonString(""), JsonString(" HR@Example.com "),
                     JsonString("invalid-email-format"),
                     JsonString(Repeat("a", 243) \o "@example.com")}),
        platform \in Members("platform_source",
                    {JsonNull, JsonString(""), JsonString("   "),
                     JsonString("LinkedIn"), JsonString(" telegram "),
                     JsonString(Repeat("a", 100)), JsonString(Repeat("a", 101))})}

\* the application with its service, before a request
InitEndpoint ==
    /\ category_weights = InitialCategoryWeights
    /\ verdict_thresholds = InitialVerdictThresholds
    /\ pc = "idle"
    /\ request = <<>>
    /\ analysis_results = <<>>
    /\ scoring = <<>>
    /\ response = <<>>
    /\ exception = None
    /\ call = <<>>
    /\ returned = <<>>
    /\ served = <<>>
    /\ clock = 0
    /\ limiter = <<>>
    /\ collector = <<>>
    /\ http = <<>>
    /\ forwarded = <<>>

NextEndpoint == ReceivePost(PostBodies) \/ HandlePost

SpecEndpoint == InitEndpoint /\ [][NextEndpoint]_vars

\* the shapes the request model declares for the object the service is given
DeclaredShapes(req) ==
    /\ Len(req.job_text) \in 10..10000
    /\ Len(req.platform_source) \in 1..100
    /\ Len(Strip(req.platform_source)) > 0
    /\ req.company_url # None => UrlPattern(req.company_url[1])
    /\ req.recruiter_email # None => EmailPattern(req.recruiter_email[1])

\* the members of a body that lack a required field or violate a shape
ViolatingFields(body) ==
    {field \in {"job_text", "platform_source"} :
        \/ field \notin DOMAIN body
        \/ body[field].json # "string"}
    \cup {field \in {"job_text"} \cap DOMAIN body :
            Len(body[field].value) \notin 10..10000}
    \cup {field \in {"platform_source"} \cap DOMAIN body :
            \/ Len(body[field].value) \notin 1..100
            \/ Len(Strip(body[field].value)) = 0}
    \cup {field \in {"company_url"} \cap DOMAIN body :
            /\ body[field].json = "string"
            /\ Len(Strip(body[field].value)) > 0
            /\ ~UrlPattern(Strip(body[field].value))}
    \cup {field \in {"recruiter_email"} \cap DOMAIN body :
            /\ body[field].json = "string"
            /\ Len(Strip(body[field].value)) > 0
            /\ ~EmailPattern(Lower(Strip(body[field].value)))}

\* a body with a violation was answered 422 with an error for each violating
\* field and the service was not called
AnsweredUnprocessable ==
    /\ pc = "rejected"
    /\ served = <<>>
    /\ http.response.status_code = 422
    /\ \A field \in ViolatingFields(http.body) :
          \E i \in 1..Len(http.response.content.errors) :
              http.response.content.errors[i].field = "body -> " \o field

\* C21: every request object analyze_job_posting of the service is given has
\* the declared shapes (job_text of 10 to 10000 characters, platform_source of
\* 1 to 100 characters and not blank, company_url and recruiter_email absent
\* or matching their pattern), and a body that lacks a required field or
\* violates a shape is answered 422 with an error per field without the
\* service being called.
ServiceSeesOnlyDeclaredShapes ==
    /\ \A i \in 1..Len(served) : DeclaredShapes(served[i].request)
    /\ (pc \notin {"idle", "posted"} /\ ViolatingFields(http.body) # {})
          => AnsweredUnprocessable

\* C22: when the analysis service raises while POST /api/v1/analyze-job is
\* handled, the client is answered status 500 with exactly the detail 'An
\* internal error occurred while processing the request' and status_code 500,
\* and neither the message nor the type of the exception is in the response.
InternalErrorAnsweredGenerically ==
    pc = "raised" =>
        /\ http.response.status_code = 500
        /\ http.response.content =
              [detail |-> "An internal error occurred while processing the request",
               status_code |-> 500]
        /\ ~Contains(http.response.content.detail, StrOfException(exception))
        /\ ~Contains(http.response.content.detail, exception[1])

ServiceRaisedOnPort ==
    /\ pc = "raised"
    /\ exception = ValueError
    /\ served[Len(served)].request.company_url = Some("https://example.com:99999")
    /\ http.response.status_code = 500

(***************************************************************************)
(* JSONParsingMiddleware (app/middleware/json_handler.py)                  *)
(***************************************************************************)
\* The body of a request is a sequence of bytes: an ASCII byte is written as
\* its character, a byte from 0x80 as its two hexadecimal digits ("C3").
\* str.encode() of ASCII text
Bytes(str) == [i \in 1..Len(str) |-> Char(str, i)]

\* the byte at position i, "" past the end
ByteAt(data, i) == IF i \in 1..Len(data) THEN data[i] ELSE ""

HexDigits == "0123456789ABCDEF"

\* the value of a byte from 0x80, 0 for an ASCII byte or past the end
HighByte(byte) ==
    IF Len(byte) # 2 THEN 0
    ELSE 16 * ((CHOOSE k \in 1..16 : Char(HexDigits, k) = Char(byte, 1)) - 1)
         + (CHOOSE k \in 1..16 : Char(HexDigits, k) = Char(byte, 2)) - 1

IsContinuation(byte) == HighByte(byte) \in 128..191

\* the number of bytes of the UTF-8 sequence that starts at position i, 0 when
\* no valid sequence starts there ('surrogatepass' lets the surrogates
\* through)
Utf8SequenceAt(data, i) ==
    LET lead == HighByte(ByteAt(data, i))
        second == HighByte(ByteAt(data, i + 1))
    IN  IF Len(ByteAt(data, i)) = 1 THEN 1
        ELSE IF lead \in 194..223 /\ IsContinuation(ByteAt(data, i + 1)) THEN 2
        ELSE IF /\ lead \in 224..239
                /\ IsContinuation(ByteAt(data, i + 1))
                /\ IsContinuation(ByteAt(data, i + 2))
                /\ lead = 224 => second >= 160
        THEN 3
        ELSE IF /\ lead \in 240..244
                /\ \A k \in 1..3 : IsContinuation(ByteAt(data, i + k))
                /\ lead = 240 => second >= 144
                /\ lead = 244 => second <= 143
        THEN 4
        ELSE 0

RECURSIVE Utf8ValidFrom(_, _)
\* bytes.decode('utf-8', 'surrogatepass') does not raise from position i on
Utf8ValidFrom(data, i) ==
    IF i > Len(data) THEN TRUE
    ELSE IF Utf8SequenceAt(data, i) = 0 THEN FALSE
    ELSE Utf8ValidFrom(data, i + Utf8SequenceAt(data, i))

\* json.detect_encoding for data without NUL bytes and without a UTF-16
\* byte order mark: 'utf-8-sig' after EF BB BF, else 'utf-8'
WithoutBom(data) ==
    IF Len(data) >= 3 /\ SubSeq(data, 1, 3) = <<"EF", "BB", "BF">>
    THEN SubSeq(data, 4, Len(data)) ELSE data

\* does `word` stand at position i
WordAtByte(data, i, word) == \A k \in 1..Len(word) : ByteAt(data, i + k - 1) = Char(word, k)

RECURSIVE SkipWhitespace(_, _)
\* WHITESPACE.match(s, i).end(): [ \t\n\r]*
SkipWhitespace(data, i) ==
    IF ByteAt(data, i) \in {" ", "\t", "\n", "\r"}
    THEN SkipWhitespace(data, i + 1) ELSE i

IsDigit(c) == Len(c) = 1 /\ InChars(c, Digits)

IsHexDigit(c) == Len(c) = 1 /\ InChars(c, HexDigits \o "abcdef")

RECURSIVE DigitsEnd(_, _)
\* \d* from position i: the position after it
DigitsEnd(data, i) == IF IsDigit(ByteAt(data, i)) THEN DigitsEnd(data, i + 1) ELSE i

\* NUMBER_RE, (-?(?:0|[1-9]\d*))(\.\d+)?([eE][-+]?\d+)?, matched at position
\* i: the position after the match, 0 without a match
NumberEnd(data, i) ==
    LET j == IF ByteAt(data, i) = "-" THEN i + 1 ELSE i
        integer == IF ByteAt(data, j) = "0" THEN j + 1
                   ELSE IF IsDigit(ByteAt(data, j)) THEN DigitsEnd(data, j + 1)
                   ELSE 0
        fraction == IF ByteAt(data, integer) = "." /\ IsDigit(ByteAt(data, integer + 1))
                    THEN DigitsEnd(data, integer + 2) ELSE integer
        sign == IF ByteAt(data, fraction + 1) \in {"+", "-"} THEN fraction + 2
                ELSE fraction + 1
    IN  IF integer = 0 THEN 0
        ELSE IF ByteAt(data, fraction) \in {"e", "E"} /\ IsDigit(ByteAt(data, sign))
        THEN DigitsEnd(data, sign + 1)
        ELSE fraction

RECURSIVE StringEnd(_, _)
\* scanstring from position i, after the opening quote: the position after the
\* closing quote, 0 when the string is unterminated, holds a control character
\* or an invalid escape
StringEnd(data, i) ==
    LET c == ByteAt(data, i)
        escaped == ByteAt(data, i + 1)
    IN  IF c = "" THEN 0
        ELSE IF c = "\"" THEN i + 1
        ELSE IF c \in {"\t", "\n", "\r"} THEN 0
        ELSE IF c # "\\" THEN StringEnd(data, i + 1)
        ELSE IF escaped \in {"\"", "\\", "/", "b", "f", "n", "r", "t"}
        THEN StringEnd(data, i + 2)
        ELSE IF escaped = "u" /\ \A k \in 2..5 : IsHexDigit(ByteAt(data, i + k))
        THEN StringEnd(data, i + 6)
        ELSE 0

RECURSIVE ValueEnd(_, _, _), MembersEnd(_, _, _), ElementsEnd(_, _, _)
\* JSONObject after a member: "}" ends the object, "," must be followed by
\* the next key
MembersEnd(data, i, constants) ==
    LET colon == SkipWhitespace(data, StringEnd(data, i + 1))
        value == ValueEnd(data, SkipWhitespace(data, colon + 1), constants)
        next == SkipWhitespace(data, value)
    IN  IF ByteAt(data, i) # "\"" \/ StringEnd(data, i + 1) = 0 THEN 0
        ELSE IF ByteAt(data, colon) # ":" THEN 0
        ELSE IF value = 0 THEN 0
        ELSE IF ByteAt(data, next) = "}" THEN next + 1
        ELSE IF ByteAt(data, next) = ","
        THEN MembersEnd(data, SkipWhitespace(data, next + 1), constants)
        ELSE 0

\* JSONArray after "[": values separated by ",", ended by "]"
ElementsEnd(data, i, constants) ==
    LET value == ValueEnd(data, i, constants)
        next == SkipWhitespace(data, value)
    IN  IF value = 0 THEN 0
        ELSE IF ByteAt(data, next) = "]" THEN next + 1
        ELSE IF ByteAt(data, next) = ","
        THEN ElementsEnd(data, SkipWhitespace(data, next + 1), constants)
        ELSE 0

\* scan_once at position i: the position after the value that starts there,
\* 0 when none does; `constants` says whether NaN, Infinity and -Infinity are
\* values, as they are for json.loads
ValueEnd(data, i, constants) ==
    LET c == ByteAt(data, i)
        inside == SkipWhitespace(data, i + 1)
    IN  IF c = "\"" THEN StringEnd(data, i + 1)
        ELSE IF c = "{"
        THEN IF ByteAt(data, inside) = "}" THEN inside + 1
             ELSE MembersEnd(data, inside, constants)
        ELSE IF c = "["
        THEN IF ByteAt(data, inside) = "]" THEN inside + 1
             ELSE ElementsEnd(data, inside, constants)
        ELSE IF WordAtByte(data, i, "null") THEN i + 4
        ELSE IF WordAtByte(data, i, "true") THEN i + 4
        ELSE IF WordAtByte(data, i, "false") THEN i + 5
        ELSE IF NumberEnd(data, i) # 0 THEN NumberEnd(data, i)
        ELSE IF constants /\ WordAtByte(data, i, "NaN") THEN i + 3
        ELSE IF constants /\ WordAtByte(data, i, "Infinity") THEN i + 8
        ELSE IF constants /\ WordAtByte(data, i, "-Infinity") THEN i + 9
        ELSE 0

\* JSONDecoder.decode: one value between whitespace and nothing after it
IsJsonText(text, constants) ==
    LET value == ValueEnd(text, SkipWhitespace(text, 1), constants)
    IN  value # 0 /\ SkipWhitespace(text, value) = Len(text) + 1

UnicodeDecodeError == Raised("UnicodeDecodeError")

JSONDecodeError == Raised("JSONDecodeError")

\* json.loads(body) for a bytes body: None when it returns a value, else the
\* exception it raises
JsonLoads(body) ==
    IF ~Utf8ValidFrom(WithoutBom(body), 1) THEN UnicodeDecodeError
    ELSE IF ~IsJsonText(WithoutBom(body), TRUE) THEN JSONDecodeError
    ELSE None

\* a request as the middlewares see it: request.method, request.url.path,
\* request.headers.get("content-type", ""), await request.body() and the
\* client key of the rate limiter
HttpRequest(method, path, content_type, body, client) ==
    [method |-> method, path |-> path, content_type |-> content_type,
     body |-> body, client |-> client]

\* lines 47-54
InvalidJsonResponse ==
    JSONResponse(400, [detail |-> "Invalid JSON format in request body",
                       status_code |-> 400,
                       error_type |-> "json_decode_error"])

\* lines 64-73
BodyErrorResponse ==
    JSONResponse(400, [detail |-> "Error processing request body", status_code |-> 400])

\* JSONParsingMiddleware.dispatch up to call_next: the response it returns
\* itself, <<>> when it goes on to call_next(request)
JsonParsingAnswer(req) ==
    IF /\ req.method \in {"POST", "PUT", "PATCH"}
       /\ StartsWith(req.content_type, "application/json")
       /\ req.body # <<>>
    THEN IF JsonLoads(req.body) = None THEN <<>>
         ELSE IF JsonLoads(req.body) = JSONDecodeError THEN InvalidJsonResponse
         ELSE BodyErrorResponse
    ELSE <<>>

\* what the handlers after a middleware answer: the middleware returns it as
\* it is
DownstreamResponses == {JSONResponse(200, <<>>), JSONResponse(422, <<>>)}

\* a request arrives at the application
ReceiveHttp(requests) ==
    /\ pc = "idle"
    /\ \E req \in requests : http' = [request |-> req, response |-> <<>>]
    /\ pc' = "arrived"
    /\ UNCHANGED <<category_weights, verdict_thresholds, request, analysis_results,
                   scoring, response, exception, call, returned, served,
                   clock, limiter, collector, forwarded>>

\* JSONParsingMiddleware.dispatch(request, call_next): the body is read and
\* parsed, and either the middleware answers or the request goes to call_next
\* with the body it has read
JsonParsingDispatch ==
    /\ pc = "arrived"
    /\ IF JsonParsingAnswer(http.request) # <<>>
       THEN /\ http' = [http EXCEPT !.response = JsonParsingAnswer(http.request)]
            /\ UNCHANGED forwarded
       ELSE /\ forwarded' = Append(forwarded, http.request)
            /\ \E answer \in DownstreamResponses :
                  http' = [http EXCEPT !.response = answer]
    /\ pc' = "answered"
    /\ UNCHANGED <<category_weights, verdict_thresholds, request, analysis_results,
                   scoring, response, exception, call, returned, served,
                   clock, limiter, collector>>

\* bodies: none, JSON texts, the malformed texts of the tests, texts json.loads
\* alone accepts, bytes that are not UTF-8
JsonBodies ==
    {<<>>,
     Bytes("{}"),
     Bytes(" [1, 2.5e3, \"x\", null, true, false] "),
     Bytes("{\"job_text\": \"test\", \"platform_source\": \"linkedin\"}"),
     Bytes("{\"job_text\": \"test\", \"platform_source\": \"linkedin\""),
     Bytes("{\"invalid\": json}"),
     Bytes("{\"a\": 1,}"),
     Bytes("{\"a\": \"\\u00e9\"} x"),
     Bytes("{\"risk\": NaN}"),
     Bytes("-Infinity"),
     Bytes("{\"a\": \"") \o <<"C3", "A9">> \o Bytes("\"}"),
     Bytes("{\"a\": \"") \o <<"FF">> \o Bytes("\"}"),
     <<"C3">>,
     Bytes("job_text=test")}

JsonRequests ==
    {HttpRequest(method, "/api/v1/analyze-job", content_type, body, "10.0.0.1") :
        method \in {"GET", "POST", "PUT", "PATCH", "DELETE"},
        content_type \in {"", "application/json", "application/json; charset=utf-8",
                          "Application/JSON", "text/plain"},
        body \in JsonBodies}

NextJson == ReceiveHttp(JsonRequests) \/ JsonParsingDispatch

SpecJson == InitEndpoint /\ [][NextJson]_vars

\* a JSON text of RFC 8259 in UTF-8
WellFormedJson(body) ==
    /\ Utf8ValidFrom(WithoutBom(body), 1)
    /\ IsJsonText(WithoutBom(body), FALSE)

\* the requests whose body the middleware is to check
JsonToCheck(req) ==
    /\ req.method \in {"POST", "PUT", "PATCH"}
    /\ StartsWith(req.content_type, "application/json")

\* C23: a POST, PUT or PATCH whose content type starts with application/json
\* and whose non-empty body is not valid JSON is answered 400 with detail
\* 'Invalid JSON format in request body' and does not reach call_next; a
\* request with a valid or empty body, another method or another content type
\* is passed to call_next with its body unchanged.
MalformedJsonAnsweredBadRequest ==
    pc = "answered" =>
        IF /\ JsonToCheck(http.request)
           /\ http.request.body # <<>>
           /\ ~WellFormedJson(http.request.body)
        THEN /\ http.response.status_code = 400
             /\ http.response.content.detail = "Invalid JSON format in request body"
             /\ forwarded = <<>>
        ELSE /\ forwarded = <<http.request>>
             /\ http.response \in DownstreamResponses

(***************************************************************************)
(* RateLimitingMiddleware (app/middleware/rate_limiting.py)                *)
(***************************************************************************)
\* settings.rate_limit_requests_per_minute and _per_hour as the model sets
\* them (60 and 1000 unless the environment says otherwise)
RequestsPerMinute == 2

RequestsPerHour == 3

\* RateLimitingMiddleware.__init__ at time `now`
NewLimiter(requests_per_minute, requests_per_hour, now) ==
    [requests_per_minute |-> requests_per_minute,
     requests_per_hour |-> requests_per_hour,
     cleanup_interval |-> 300,
     request_counts |-> <<>>,
     last_cleanup |-> now]

\* _get_client_ip: the key of the client (the first X-Forwarded-For entry,
\* X-Real-IP or the peer address, which the request of the model carries
\* as `client`)
GetClientIp(req) == req.client

\* [timestamp for timestamp in timestamps if timestamp > cutoff]
After(timestamps, cutoff) == SelectSeq(timestamps, LAMBDA timestamp : timestamp > cutoff)

\* both lists cut at one minute
CleanedEntryByTheMinute(client_data, current_time) ==
    [minute |-> After(client_data.minute, current_time - 60),
     hour |-> After(client_data.hour, current_time - 60)]

\* the entry of one client after the two filters of _cleanup_old_entries
CleanedEntry(client_data, current_time) ==
    [minute |-> After(client_data.minute, current_time - 60),
     hour |-> After(client_data.hour, current_time - 3600)]

\* lines 77-101: the cleanup when it is due
CleanupNow(self, current_time) ==
    [self EXCEPT
        !.request_counts =
            [client_ip \in {c \in DOMAIN self.request_counts :
                              \/ CleanedEntry(self.request_counts[c], current_time).minute # <<>>
                              \/ CleanedEntry(self.request_counts[c], current_time).hour # <<>>}
                |-> CleanedEntry(self.request_counts[client_ip], current_time)],
        !.last_cleanup = current_time]

\* _cleanup_old_entries with time.time() = current_time
CleanupOldEntries(self, current_time) ==
    IF current_time - self.last_cleanup < self.cleanup_interval THEN self
    ELSE CleanupNow(self, current_time)

\* lines 116-117 and 152-153: the entry of a client not seen before
WithClient(self, client_ip) ==
    IF client_ip \in DOMAIN self.request_counts THEN self
    ELSE [self EXCEPT !.request_counts =
              (client_ip :> [minute |-> <<>>, hour |-> <<>>]) @@ self.request_counts]

\* a check that lets one request more through
RateLimitErrorOffByOne(self, client_ip, current_time) ==
    LET client_data == WithClient(self, client_ip).request_counts[client_ip]
    IN  IF Len(After(client_data.minute, current_time - 60)) > self.requests_per_minute
        THEN "Rate limit exceeded: " \o ToString(self.requests_per_minute)
             \o " requests per minute"
        ELSE IF Len(After(client_data.hour, current_time - 3600)) > self.requests_per_hour
        THEN "Rate limit exceeded: " \o ToString(self.requests_per_hour)
             \o " requests per hour"
        ELSE ""

\* the value _is_rate_limited returns with time.time() = current_time, "" for
\* None
RateLimitError(self, client_ip, current_time) ==
    LET client_data == WithClient(self, client_ip).request_counts[client_ip]
    IN  IF Len(After(client_data.minute, current_time - 60)) >= self.requests_per_minute
        THEN "Rate limit exceeded: " \o ToString(self.requests_per_minute)
             \o " requests per minute"
        ELSE IF Len(After(client_data.hour, current_time - 3600)) >= self.requests_per_hour
        THEN "Rate limit exceeded: " \o ToString(self.requests_per_hour)
             \o " requests per hour"
        ELSE ""

\* _record_request with time.time() = current_time
RecordRequest(self, client_ip, current_time) ==
    [WithClient(self, client_ip) EXCEPT
        !.request_counts[client_ip].minute = Append(@, current_time),
        !.request_counts[client_ip].hour = Append(@, current_time)]

\* lines 185-192
RateLimitResponse(rate_limit_error) ==
    JSONResponse(429, [detail |-> rate_limit_error, status_code |-> 429, retry_after |-> 60])

\* the health checks without the root path
ExemptPathsWithoutRoot == {"/health", "/api/v1/health"}

\* line 171
ExemptPaths == {"/", "/health", "/api/v1/health"}

\* what call_next answers to a request the limiter passes on
Passed == JSONResponse(200, <<>>)

\* a limiter that counts the requests it refuses
LimitedAndRecorded(req, checked, rate_limit_error) ==
    /\ limiter' = RecordRequest(checked, GetClientIp(req), clock)
    /\ http' = [request |-> req, response |-> RateLimitResponse(rate_limit_error),
                at |-> clock]
    /\ UNCHANGED <<clock, forwarded>>

\* the limiter answers 429 itself: the entry of a new client apart, nothing
\* is recorded
Limited(req, checked, rate_limit_error) ==
    /\ limiter' = checked
    /\ http' = [request |-> req, response |-> RateLimitResponse(rate_limit_error),
                at |-> clock]
    /\ UNCHANGED <<clock, forwarded>>

\* the request is recorded at the time `recorded_at` and passed to call_next
Admitted(req, checked, recorded_at) ==
    /\ limiter' = RecordRequest(checked, GetClientIp(req), recorded_at)
    /\ clock' = recorded_at
    /\ forwarded' = Append(forwarded, [client |-> GetClientIp(req), at |-> recorded_at])
    /\ http' = [request |-> req, response |-> Passed, at |-> clock]

\* lines 174-201 for a path that is not exempt, `cleaned` being the limiter
\* after _cleanup_old_entries
Checked(req, cleaned, recorded_at) ==
    IF RateLimitError(cleaned, GetClientIp(req), clock) # ""
    THEN Limited(req, WithClient(cleaned, GetClientIp(req)),
                 RateLimitError(cleaned, GetClientIp(req), clock))
    ELSE Admitted(req, cleaned, recorded_at)

\* lines 171-172: an exempt path goes to call_next at once
Bypass(req) ==
    /\ http' = [request |-> req, response |-> Passed, at |-> clock]
    /\ UNCHANGED <<clock, limiter, forwarded>>

\* the instants at which the model lets requests arrive
Instants == {0, 60, 270, 330, 3600}

\* by how much the clock advances between the time.time() of the check and
\* the time.time() of _record_request
Drifts == {0, 1}

\* the number of requests the limiter passes on in one behaviour
MaxForwarded == 4

LimiterRequests ==
    {HttpRequest("POST", path, "application/json", <<>>, client) :
        path \in {"/api/v1/analyze-job", "/", "/health", "/api/v1/health"},
        client \in {"10.0.0.1", "10.0.0.2"}}

\* RateLimitingMiddleware.dispatch(request, call_next). No await stands between
\* the cleanup, the check and the recording, so no other request runs between
\* them; what follows call_next does not touch the limiter.
RateLimitingDispatch ==
    /\ Len(forwarded) < MaxForwarded
    /\ \E req \in LimiterRequests :
          IF req.path \in ExemptPaths THEN Bypass(req)
          ELSE \E drift \in Drifts :
                  Checked(req, CleanupOldEntries(limiter, clock), clock + drift)
    /\ UNCHANGED <<category_weights, verdict_thresholds, pc, request, analysis_results,
                   scoring, response, exception, call, returned, served, collector>>

\* time passes: the clock is at a later instant and no exchange is at hand
Tick ==
    /\ \E instant \in Instants : instant > clock /\ clock' = instant
    /\ http' = <<>>
    /\ UNCHANGED <<category_weights, verdict_thresholds, pc, request, analysis_results,
                   scoring, response, exception, call, returned, served,
                   limiter, collector, forwarded>>

\* the application after add_middleware(RateLimitingMiddleware, ...)
InitLimiter ==
    /\ category_weights = InitialCategoryWeights
    /\ verdict_thresholds = InitialVerdictThresholds
    /\ pc = "idle"
    /\ request = <<>>
    /\ analysis_results = <<>>
    /\ scoring = <<>>
    /\ response = <<>>
    /\ exception = None
    /\ call = <<>>
    /\ returned = <<>>
    /\ served = <<>>
    /\ clock = 0
    /\ limiter = NewLimiter(RequestsPerMinute, RequestsPerHour, 0)
    /\ collector = <<>>
    /\ http = <<>>
    /\ forwarded = <<>>

NextLimiter == RateLimitingDispatch \/ Tick

SpecLimiter == InitLimiter /\ [][NextLimiter]_vars

\* the number of requests of a client in `log` recorded in (from, to]
RecordedIn(log, client, from, to) ==
    Cardinality({i \in 1..Len(log) :
                    log[i].client = client /\ log[i].at > from /\ log[i].at <= to})

\* the requests passed on before the exchange at hand
PassedBefore ==
    IF http.response = Passed THEN SubSeq(forwarded, 1, Len(forwarded) - 1)
    ELSE forwarded

\* the exchange at hand is one the limiter decided on
Decided == http # <<>> /\ http.request.path \notin {"/", "/health", "/api/v1/health"}

\* the request at hand found a window full
FoundWindowFull ==
    \/ RecordedIn(PassedBefore, http.request.client, http.at - 60, http.at)
          >= limiter.requests_per_minute
    \/ RecordedIn(PassedBefore, http.request.client, http.at - 3600, http.at)
          >= limiter.requests_per_hour

\* C24: for every client and every instant t, at most requests_per_minute of
\* the requests the limiter passed on were recorded in (t-60, t] and at most
\* requests_per_hour in (t-3600, t] (a window holds most when it ends at a
\* recorded time, so these and the present are the instants looked at); a
\* request that finds a window full is answered 429 with retry_after 60, and
\* no other is.
SlidingWindowLimitHolds ==
    /\ \A client \in {forwarded[i].client : i \in 1..Len(forwarded)} :
          \A t \in {forwarded[i].at : i \in 1..Len(forwarded)} \cup {clock} :
              /\ RecordedIn(forwarded, client, t - 60, t) <= limiter.requests_per_minute
              /\ RecordedIn(forwarded, client, t - 3600, t) <= limiter.requests_per_hour
    /\ Decided =>
          IF FoundWindowFull
          THEN /\ http.response.status_code = 429
               /\ http.response.content.status_code = 429
               /\ http.response.content.retry_after = 60
          ELSE http.response = Passed

\* a request refused by the hourly limit while the window of the minute has
\* room
RefusedByTheHour ==
    /\ Decided
    /\ http.response.status_code = 429
    /\ RecordedIn(forwarded, http.request.client, http.at - 60, http.at)
          < limiter.requests_per_minute
    /\ RecordedIn(forwarded, http.request.client, http.at - 3600, http.at)
          = limiter.requests_per_hour

\* a request to one of the three health check paths was handled
HealthCheckHandled == http # <<>> /\ http.request.path \in {"/", "/health", "/api/v1/health"}

\* C25: a request to '/', '/health' or '/api/v1/health' is passed on and never
\* answered 429, whatever the client's quota, and handling it leaves the
\* limiter, request_counts included, and the log of recorded requests as they
\* were.
HealthChecksBypassLimiter ==
    [][(http' # http /\ HealthCheckHandled')
          => /\ http'.response = JSONResponse(200, <<>>)
             /\ limiter' = limiter
             /\ forwarded' = forwarded]_vars

\* the root path was passed on for a client whose next request to the
\* analysis would be refused
HealthCheckWhileOverLimit ==
    /\ HealthCheckHandled
    /\ http.response.status_code = 200
    /\ RecordedIn(forwarded, http.request.client, clock - 60, clock)
          >= limiter.requests_per_minute
    /\ http.request.path = "/"

\* the times at which the requests of a client in `log` were recorded
TimesOf(log, client) ==
    LET own == SelectSeq(log, LAMBDA entry : entry.client = client)
    IN  [i \in 1..Len(own) |-> own[i].at]

\* every timestamp of `after` is one of `before`
NoneAdded(before, after) ==
    /\ Len(after) <= Len(before)
    /\ \A i \in 1..Len(after) : \E j \in 1..Len(before) : after[i] = before[j]

\* the request at hand comes more than 60 seconds after the oldest of the
\* client's requests_per_minute most recent admitted requests, and the hour
\* has room
FreeAgain ==
    LET times == TimesOf(PassedBefore, http.request.client)
    IN  /\ Decided
        /\ Len(times) >= limiter.requests_per_minute
        /\ http.at > times[Len(times) - limiter.requests_per_minute + 1] + 60
        /\ RecordedIn(PassedBefore, http.request.client, http.at - 3600, http.at)
              < limiter.requests_per_hour

\* C28: a step that answers 429 adds no timestamp to the minute or hour list
\* of any client and records nothing, so refusals do not prolong a block: a
\* request made more than 60 seconds after the oldest of the client's
\* requests_per_minute most recent admitted requests is admitted when the
\* hourly limit is not reached.
RefusalsRecordNothing ==
    [][/\ (http' # <<>> /\ http'.response.status_code = 429)
            => /\ forwarded' = forwarded
               /\ \A client \in DOMAIN limiter'.request_counts :
                     /\ client \in DOMAIN limiter.request_counts
                     /\ NoneAdded(limiter.request_counts[client].minute,
                                  limiter'.request_counts[client].minute)
                     /\ NoneAdded(limiter.request_counts[client].hour,
                                  limiter'.request_counts[client].hour)
       /\ FreeAgain' => http'.response.status_code = 200]_vars

\* a request refused by the limit of the minute: the lists of the client hold
\* the admitted requests and nothing else
RefusedWithinTheMinute ==
    /\ Decided
    /\ http.response.status_code = 429
    /\ http.response.content.detail =
          "Rate limit exceeded: " \o ToString(limiter.requests_per_minute)
          \o " requests per minute"
    /\ limiter.request_counts[http.request.client].hour
          = TimesOf(forwarded, http.request.client)
    /\ Len(limiter.request_counts[http.request.client].hour) < limiter.requests_per_hour

\* the request_counts of a limiter that never cleans up, after the requests in
\* `log`: every client holds the times of all its admitted requests
Uncleaned(log) ==
    [limiter EXCEPT !.request_counts =
        [client \in {log[i].client : i \in 1..Len(log)} |->
            [minute |-> TimesOf(log, client), hour |-> TimesOf(log, client)]]]

\* the limiter that never cleans up gives the request at hand the answer it
\* got
SameAnswerUncleaned ==
    Decided =>
        RateLimitError(Uncleaned(PassedBefore), http.request.client, http.at)
            = (IF http.response.status_code = 429 THEN http.response.content.detail
               ELSE "")

\* the timestamps of `before` that are not in `after`
Removed(before, after) ==
    {before[i] : i \in 1..Len(before)} \ {after[i] : i \in 1..Len(after)}

\* the list `key` of a client in request_counts, empty without an entry
ListOf(request_counts, client, key) ==
    IF client \in DOMAIN request_counts THEN request_counts[client][key] ELSE <<>>

\* a step removes from the lists only timestamps at least `minute` and `hour`
\* seconds before the present
RemovesOnlyBefore(minute, hour) ==
    \A client \in DOMAIN limiter.request_counts :
        /\ \A timestamp \in Removed(limiter.request_counts[client].minute,
                                    ListOf(limiter'.request_counts, client, "minute")) :
              timestamp + minute <= clock
        /\ \A timestamp \in Removed(limiter.request_counts[client].hour,
                                    ListOf(limiter'.request_counts, client, "hour")) :
              timestamp + hour <= clock

\* a step runs the cleanup only when cleanup_interval has passed since the last
\* one, and drops the entry of a client only if the cleanup left both of its
\* lists empty
CleanupInItsTime ==
    /\ limiter'.last_cleanup # limiter.last_cleanup
          => limiter'.last_cleanup - limiter.last_cleanup >= limiter.cleanup_interval
    /\ \A client \in DOMAIN limiter.request_counts \ DOMAIN limiter'.request_counts :
          /\ After(limiter.request_counts[client].minute, clock - 60) = <<>>
          /\ After(limiter.request_counts[client].hour, clock - 3600) = <<>>

\* C29 as stated: the limiter answers every request as a limiter that never
\* runs _cleanup_old_entries would; the cleanup runs at most once per
\* cleanup_interval, removes only timestamps older than 60 s from a minute
\* list and older than 3600 s from an hour list, and deletes the entry of a
\* client only when both its lists are empty afterwards.
CleanupRemovesOnlyOlder ==
    [][/\ SameAnswerUncleaned'
       /\ CleanupInItsTime
       /\ RemovesOnlyBefore(61, 3601)]_vars

\* C29, amended: the same, the timestamps removed being those 60 s old or
\* older in a minute list and 3600 s old or older in an hour list, the ones
\* the check of the limits does not count either.
CleanupIsTransparent ==
    [][/\ SameAnswerUncleaned'
       /\ CleanupInItsTime
       /\ RemovesOnlyBefore(60, 3600)]_vars

\* a request is refused by the hourly limit after a cleanup has emptied the
\* minute list of its client and kept the hour list
RefusedAfterCleanup ==
    /\ Decided
    /\ http.response.status_code = 429
    /\ limiter.last_cleanup > 0
    /\ limiter.request_counts[http.request.client].minute = <<>>
    /\ Len(limiter.request_counts[http.request.client].hour) = limiter.requests_per_hour
    /\ Len(TimesOf(forwarded, http.request.client)) = limiter.requests_per_hour

\* C27: for every TextAnalysis finding set with more than 5 findings, the
\* category score of the top-3 rule (max severity x confidence) is greater than
\* or equal to the confidence-weighted average severity of the same findings,
\* so a sixth finding added to five never makes the text category score drop
\* below what the average rule would give for the six.
TopThreeNeverBelowAverage ==
    Answered =>
        LET factors == TaggedFactors(TEXT_ANALYSIS)
            score == scoring.category_scores[TEXT_ANALYSIS]
        IN  Len(factors) > 5 =>
                score[1] * SumConfidence(factors)
                    >= SumWeightedSeverity(factors) * score[2]

\* ---------------------------------------------------------------------------
\* MetricsCollector (logging_middleware.py)
\* ---------------------------------------------------------------------------

\* self.metrics after MetricsCollector.__init__ at the time `now`
NewCollector(now) ==
    [requests_total |-> 0,
     requests_by_method |-> <<>>,
     requests_by_status |-> <<>>,
     response_times |-> <<>>,
     errors_total |-> 0,
     start_time |-> now]

\* counts[key] += 1 after `if key not in counts: counts[key] = 0`
Counted(counts, key) ==
    IF key \in DOMAIN counts THEN [counts EXCEPT ![key] = @ + 1]
    ELSE counts @@ (key :> 1)

\* response_times after the append and the cut to the last 1000
Timed(response_times, duration) ==
    LET times == Append(response_times, duration)
    IN  IF Len(times) > 1000 THEN SubSeq(times, Len(times) - 999, Len(times))
        ELSE times

\* record_request with the errors counted above 400
CollectorRecordRequestAbove400(metrics, method, status_code, duration, path) ==
    [metrics EXCEPT
        !.requests_total = @ + 1,
        !.requests_by_method = Counted(@, method),
        !.requests_by_status = Counted(@, status_code),
        !.response_times = Timed(@, duration),
        !.errors_total = IF status_code > 400 THEN @ + 1 ELSE @]

\* MetricsCollector.record_request(method, status_code, duration, path):
\* self.metrics afterwards
CollectorRecordRequest(metrics, method, status_code, duration, path) ==
    [metrics EXCEPT
        !.requests_total = @ + 1,
        !.requests_by_method = Counted(@, method),
        !.requests_by_status = Counted(@, status_code),
        !.response_times = Timed(@, duration),
        !.errors_total = IF status_code >= 400 THEN @ + 1 ELSE @]

\* the error_rate of get_metrics(): errors_total / max(requests_total, 1) * 100
ErrorRate(metrics) ==
    RMul(Rat(metrics.errors_total, Max(metrics.requests_total, 1)), RInt(100))

\* the longest sequence of record_request calls
MaxCalls == 4

\* the status codes recorded, on both sides of 400
RecordedStatusCodes == {200, 399, 400, 404, 500}

\* a caller records a request, as test_metrics_collection does; `forwarded`
\* keeps the calls made
RecordRequestCall ==
    /\ Len(forwarded) < MaxCalls
    /\ \E method \in {"GET", "POST"}, status_code \in RecordedStatusCodes :
          /\ collector' = CollectorRecordRequest(collector, method, status_code,
                                                 100, "/test")
          /\ forwarded' = Append(forwarded,
                                 [method |-> method, status_code |-> status_code,
                                  duration |-> 100, path |-> "/test"])
    /\ UNCHANGED <<category_weights, verdict_thresholds, pc, request, analysis_results,
                   scoring, response, exception, call, returned, served,
                   clock, limiter, http>>

\* the module after  metrics_collector = MetricsCollector()
InitCollector ==
    /\ category_weights = InitialCategoryWeights
    /\ verdict_thresholds = InitialVerdictThresholds
    /\ pc = "idle"
    /\ request = <<>>
    /\ analysis_results = <<>>
    /\ scoring = <<>>
    /\ response = <<>>
    /\ exception = <<>>
    /\ call = <<>>
    /\ returned = <<>>
    /\ served = <<>>
    /\ clock = 0
    /\ limiter = <<>>
    /\ collector = NewCollector(0)
    /\ http = <<>>
    /\ forwarded = <<>>

NextCollector == RecordRequestCall

SpecCollector == InitCollector /\ [][NextCollector]_vars

RECURSIVE SumOfCounts(_)
\* the sum of the counts of a dict
SumOfCounts(counts) ==
    IF DOMAIN counts = {} THEN 0
    ELSE LET key == CHOOSE k \in DOMAIN counts : TRUE
         IN  counts[key] + SumOfCounts([k \in DOMAIN counts \ {key} |-> counts[k]])

\* the calls made so far whose status code is an error's
ErrorCalls == {i \in 1..Len(forwarded) : forwarded[i].status_code >= 400}

\* C26: after any sequence of record_request calls requests_total equals the
\* number of calls and both the sum of the requests_by_method counts and the
\* sum of the requests_by_status counts; errors_total equals the number of
\* calls with status_code >= 400, so errors_total <= requests_total and
\* error_rate lies in 0..100, and is 0 when no request was recorded.
CollectorCountsAgree ==
    /\ collector.requests_total = Len(forwarded)
    /\ collector.requests_total = SumOfCounts(collector.requests_by_method)
    /\ collector.requests_total = SumOfCounts(collector.requests_by_status)
    /\ collector.errors_total = Cardinality(ErrorCalls)
    /\ collector.errors_total <= collector.requests_total
    /\ RLe(RInt(0), ErrorRate(collector))
    /\ RLe(ErrorRate(collector), RInt(100))
    /\ collector.requests_total = 0 => ErrorRate(collector) = RInt(0)

\* C26 witness: calls with the status codes 399, 400 and 500 were recorded, two
\* of them with one method, and the error rate is neither 0 nor 100
ErrorsAndSuccessesRecorded ==
    /\ Len(forwarded) = MaxCalls
    /\ {399, 400, 500} \subseteq DOMAIN collector.requests_by_status
    /\ \E method \in DOMAIN collector.requests_by_method :
          collector.requests_by_method[method] >= 2
    /\ collector.errors_total = Len(forwarded) - 1
    /\ ErrorRate(collector) = RInt(75)

\* ---------------------------------------------------------------------------
\* MetricsMiddleware (logging_middleware.py)
\* ---------------------------------------------------------------------------

\* what `await call_next(request)` ends with: a response returned, or an
\* exception raised into dispatch
ReturnedResponse(resp) == [returned |-> resp, raised |-> <<>>]

RaisedException(exc) == [returned |-> <<>>, raised |-> exc]

\* asyncio.CancelledError, thrown into the coroutine at its await when the
\* task of the request is cancelled
CancelledError == Raised("CancelledError")

\* isinstance(exc, Exception): CancelledError derives from BaseException only
IsException(exc) == exc # CancelledError

\* a dispatch without its except clause
MetricsOutcomeWithoutExcept(metrics, req, downstream, duration) ==
    IF downstream.raised = <<>>
    THEN [metrics |-> CollectorRecordRequest(metrics, req.method,
                         downstream.returned.status_code, duration, req.path),
          calls |-> <<[method |-> req.method,
                       status_code |-> downstream.returned.status_code,
                       duration |-> duration, path |-> req.path]>>,
          result |-> downstream]
    ELSE [metrics |-> metrics, calls |-> <<>>, result |-> downstream]

\* MetricsMiddleware.dispatch from the end of `await call_next(request)` on:
\* the metrics afterwards, the record_request calls made, and what the caller
\* of dispatch gets
MetricsOutcome(metrics, req, downstream, duration) ==
    IF downstream.raised = <<>>
    THEN [metrics |-> CollectorRecordRequest(metrics, req.method,
                         downstream.returned.status_code, duration, req.path),
          calls |-> <<[method |-> req.method,
                       status_code |-> downstream.returned.status_code,
                       duration |-> duration, path |-> req.path]>>,
          result |-> downstream]
    ELSE IF IsException(downstream.raised)
    THEN [metrics |-> CollectorRecordRequest(metrics, req.method, 500, duration, req.path),
          calls |-> <<[method |-> req.method, status_code |-> 500,
                       duration |-> duration, path |-> req.path]>>,
          result |-> downstream]
    ELSE [metrics |-> metrics, calls |-> <<>>, result |-> downstream]

\* the requests that pass through the middleware
MetricsRequests ==
    {HttpRequest("GET", "/health", "", <<>>, "10.0.0.1"),
     HttpRequest("POST", "/api/v1/analyze-job", "application/json", <<>>, "10.0.0.1")}

\* what the application below the middleware ends a request with
DownstreamOutcomes ==
    {ReturnedResponse(JSONResponse(status_code, <<>>)) :
        status_code \in {200, 422, 500}}
    \cup {RaisedException(exc) : exc \in {ValueError, CancelledError}}

\* the most requests that enter the middleware
MaxExchanges == 3

\* dispatch up to its await: start_time is taken and call_next is awaited;
\* `http` keeps the exchanges, `downstream` and `result` empty while the
\* request is in flight
MetricsEnter ==
    /\ Len(http) < MaxExchanges
    /\ \E req \in MetricsRequests :
          http' = Append(http, [request |-> req, start_time |-> clock,
                                downstream |-> <<>>, result |-> <<>>])
    /\ UNCHANGED <<category_weights, verdict_thresholds, pc, request, analysis_results,
                   scoring, response, exception, call, returned, served,
                   clock, limiter, collector, forwarded>>

\* call_next ends for one of the requests in flight and dispatch runs to its
\* end without another await, a second after the last event: `downstream` is
\* what call_next ended with, `result` what dispatch returns or raises
MetricsLeave ==
    /\ \E i \in 1..Len(http), downstream \in DownstreamOutcomes :
          /\ http[i].result = <<>>
          /\ clock' = clock + 1
          /\ collector' = MetricsOutcome(collector, http[i].request, downstream,
                                         clock' - http[i].start_time).metrics
          /\ forwarded' = forwarded \o
                MetricsOutcome(collector, http[i].request, downstream,
                               clock' - http[i].start_time).calls
          /\ http' = [http EXCEPT
                ![i].downstream = downstream,
                ![i].result = MetricsOutcome(collector, http[i].request, downstream,
                                             clock' - http[i].start_time).result]
    /\ UNCHANGED <<category_weights, verdict_thresholds, pc, request, analysis_results,
                   scoring, response, exception, call, returned, served, limiter>>

NextMetrics == MetricsEnter \/ MetricsLeave

\* the application after add_middleware(MetricsMiddleware), which uses the
\* global metrics_collector
SpecMetrics == InitCollector /\ [][NextMetrics]_vars

\* the exchanges that ended in this step
EndedNow == {i \in 1..Len(http) : http[i].result = <<>> /\ http'[i].result # <<>>}

\* the record_request calls made in this step
CallsNow == SubSeq(forwarded', Len(forwarded) + 1, Len(forwarded'))

\* the step made one record_request call for exchange i with this status code
\* and nothing else, and dispatch ended as call_next did
RecordedOnceWith(i, status_code) ==
    /\ Len(CallsNow) = 1
    /\ CallsNow[1].method = http[i].request.method
    /\ CallsNow[1].path = http[i].request.path
    /\ CallsNow[1].status_code = status_code
    /\ collector'.requests_total = collector.requests_total + 1
    /\ http'[i].result = http'[i].downstream

\* the exchanges that ended, with a response or with any exception
Ended == {i \in 1..Len(http) : http[i].result # <<>>}

\* the exchanges that ended with a response or with an Exception
EndedInsideTry ==
    {i \in Ended : http[i].downstream.raised = <<>> \/ IsException(http[i].downstream.raised)}

\* C30 as stated: for every request that passes through MetricsMiddleware
\* exactly one record_request call is made, with the response's status code
\* when the downstream returns a response, or with status 500 when the
\* downstream raises, after which the same exception propagates to the caller;
\* no request is counted twice or left uncounted.
EveryRequestRecordedOnce ==
    [][/\ \A i \in EndedNow :
             RecordedOnceWith(i, IF http'[i].downstream.raised = <<>>
                                 THEN http'[i].downstream.returned.status_code
                                 ELSE 500)
       /\ EndedNow = {} => forwarded' = forwarded /\ collector' = collector
       /\ Len(forwarded') = Cardinality(Ended')
       /\ collector'.requests_total = Cardinality(Ended')]_vars

\* C30, amended: for every request whose downstream returns a response or
\* raises an Exception exactly one record_request call is made, with the
\* response's status code or with status 500, after which the same exception
\* propagates to the caller; what the downstream raises that is not an
\* Exception (asyncio.CancelledError) propagates with no call made; no request
\* is counted twice, and none of the former is left uncounted.
RequestsInsideTryRecordedOnce ==
    [][/\ \A i \in EndedNow :
             IF http'[i].downstream.raised = <<>>
             THEN RecordedOnceWith(i, http'[i].downstream.returned.status_code)
             ELSE IF IsException(http'[i].downstream.raised)
             THEN RecordedOnceWith(i, 500)
             ELSE /\ forwarded' = forwarded
                  /\ collector' = collector
                  /\ http'[i].result = http'[i].downstream
       /\ EndedNow = {} => forwarded' = forwarded /\ collector' = collector
       /\ Len(forwarded') = Cardinality(EndedInsideTry')
       /\ collector'.requests_total = Cardinality(EndedInsideTry')]_vars

\* C30 witness: of three requests in the middleware at once the second one
\* ended first, with a ValueError recorded as a 500, the last one was answered
\* 422 and the first one is still in flight
RaisedRecordedWhileOthersInFlight ==
    /\ Len(http) = 3
    /\ http[1].result = <<>>
    /\ http[2].result = RaisedException(ValueError)
    /\ http[3].result = ReturnedResponse(JSONResponse(422, <<>>))
    /\ Len(forwarded) = 2
    /\ forwarded[1].status_code = 500
    /\ forwarded[1].method = http[2].request.method
    /\ forwarded[2].status_code = 422
    /\ collector.errors_total = 2

====
